---- MODULE Spec2Model ----
(***************************************************************************)
(* Retrieval-and-ranking engine of the career assistant:                   *)
(*   - FaissHandler (tools/faiss_utils.py): one vector index and one       *)
(*     corpus per data type, loaded lazily and written through to disk;    *)
(*   - call_llm_api / call_llm_api_json (tools/llm_api.py): the LLM        *)
(*     client with its cache, retry loop and JSON extraction;              *)
(*   - analyze_course_relevance / rank_and_filter_courses                  *)
(*     (tools/course_fetcher.py);                                          *)
(*   - clean_enhance_resume / handle_llm_fallback (crew/tools.py).         *)
(* Each component has its own specification over the shared variables.     *)
(***************************************************************************)
EXTENDS Integers, Sequences, FiniteSets, TLC

(***************************************************************************)
(* Bounds of the model.                                                    *)
(***************************************************************************)
\* largest corpus (and index) of one data type
MaxItems == 2

\* calls each of the concurrent callers of one handler makes
MaxCalls == 2

(***************************************************************************)
(* The state.                                                              *)
(***************************************************************************)
\* FaissHandler instances and the files they share
VARIABLES
    indices,        \* indices[h]: self._indices, data type -> sequence of vectors
    corpora,        \* corpora[h]: self._corpora, data type -> sequence of (text, meta)
    loaded_types,   \* loaded_types[h]: self._loaded_types
    locks,          \* locks[h]: keys of self._locks
    index_file,     \* faiss_index_<type>.bin files that exist, with their content
    corpus_file,    \* faiss_corpus_<type>.pkl files that exist, with their content
    last            \* the last call that returned, with what it saw and returned

storeVars == <<indices, corpora, loaded_types, locks, index_file, corpus_file, last>>

\* concurrent callers of one FaissHandler
VARIABLES
    threads,        \* threads[t]: the statement t is at, its call, the lock it took
    lock_state      \* the Lock stored in self._locks, the locks held, and the counts
                    \* of Lock() calls and of constructions in _ensure_loaded

concVars == <<threads, lock_state>>

\* the LLM client: its cache and the call in progress
VARIABLES
    llm_cache,      \* the module's llm_cache: cache key -> cached result
    pc,             \* where the call is: "idle", "request", "sleep", "returned"
    call,           \* the arguments of the call in progress
    attempt,        \* the loop variable
    nreq,           \* requests.post calls of this call
    sleeps,         \* the time.sleep calls of this call
    lastResp,       \* what the latest requests.post of this call did
    result,         \* the call's result: its value and the return statement it took
    called,         \* cache keys of the calls that have returned
    answered        \* cache key -> the branch a 200 response to it took

llmVars == <<llm_cache, pc, call, attempt, nreq, sleeps, lastResp, result, called, answered>>

\* concurrent callers of call_llm_api
VARIABLES
    callers,        \* callers[t]: where the call of thread t is, its arguments,
                    \* its loop variable and its result
    first_write     \* cache key -> the value of the first llm_cache[cache_key] = result

llmConcVars == <<callers, first_write>>

\* call_llm_api_json: the call in progress
VARIABLES
    json_pc,        \* "idle", "calling" (inside call_llm_api) or "returned"
    json_out        \* what call_llm_api_json returned, or the exception it raised

jsonVars == <<json_pc, json_out>>

\* the course ranker: the latest call of each function
VARIABLES
    rank_in,        \* the arguments of rank_and_filter_courses and what the LLM did
    rank_out,       \* what rank_and_filter_courses returned
    analyze_in,     \* the arguments of analyze_course_relevance and what the LLM did
    analyze_out     \* what analyze_course_relevance returned, or the exception it raised

rankVars == <<rank_in, rank_out, analyze_in, analyze_out>>

\* the wrapped operations of crew/tools.py: the latest call
VARIABLES
    fb_in,          \* the wrapper called, what call_llm_api returned to the primary
                    \* path and what call_local_llm_api does
    fb_out          \* the wrapper's result, the primary path's result, the calls made

fbVars == <<fb_in, fb_out>>

\* match_similar_resumes: the latest call
VARIABLES
    match_in,       \* its arguments, the resume corpus, what search returned
                    \* and what call_llm_api did
    match_out       \* what it returned

matchVars == <<match_in, match_out>>

\* extract_skills: the latest call
VARIABLES
    skills_in,      \* the resume text, what call_llm_api did and what spaCy found
    skills_out      \* what it returned

skillVars == <<skills_in, skills_out>>

\* fetch_recommended_courses: the latest call
VARIABLES
    rec_in,         \* the job title and what the three course fetchers did
    rec_out         \* what it returned

recVars == <<rec_in, rec_out>>

\* the files of the store's older, single-index layout
VARIABLES
    legacy_index_file,      \* faiss_index.bin
    legacy_corpus_file      \* faiss_corpus.pkl

legacyVars == <<legacy_index_file, legacy_corpus_file>>

otherVars == <<skillVars, recVars, legacyVars>>

vars == <<storeVars, concVars, llmVars, llmConcVars, jsonVars, rankVars, fbVars, matchVars, otherVars>>

(***************************************************************************)
(* Python dictionaries are functions with a finite domain.                 *)
(***************************************************************************)
EmptyDict == << >>

Put(d, k, v) == [x \in (DOMAIN d) \cup {k} |-> IF x = k THEN v ELSE d[x]]

(***************************************************************************)
(*                      FaissHandler (faiss_utils.py)                      *)
(***************************************************************************)
\* data types (content types) in use
Types == {"resume", "course"}

\* FaissHandler instances: every pipeline call constructs its own
Handlers == {"h1", "h2"}

\* texts are character sequences; the whitespace str.strip() removes
Whitespace == {" ", "\n", "\t", "\r"}

RECURSIVE LStrip(_)
LStrip(s) == IF s # << >> /\ Head(s) \in Whitespace THEN LStrip(Tail(s)) ELSE s

RECURSIVE RStrip(_)
RStrip(s) ==
    IF s # << >> /\ s[Len(s)] \in Whitespace
    THEN RStrip(SubSeq(s, 1, Len(s) - 1))
    ELSE s

\* str.strip()
Strip(s) == RStrip(LStrip(s))

\* the (text, meta) arguments callers pass to add
AddInputs ==
    { << <<"a">>, [filename |-> "r1.pdf"] >>,
      << <<" ", "b">>, [filename |-> "r2.pdf"] >>,
      << << >>, [filename |-> "r1.pdf"] >>,
      << <<" ">>, [filename |-> "r2.pdf"] >> }

\* embedding_model.encode([text])[0]: the vector of a text
Encode(text) == [vec |-> text]


\* the in-memory fields of handler h
Mem(h) ==
    [indices |-> indices[h], corpora |-> corpora[h],
     loaded_types |-> loaded_types[h], locks |-> locks[h]]

\* FaissHandler.__init__
NewMem ==
    [indices |-> EmptyDict, corpora |-> EmptyDict, loaded_types |-> {}, locks |-> {}]

\* FaissHandler._ensure_loaded (one caller: the lock is free)
EnsureLoaded(m, T) ==
    IF T \in m.loaded_types
    THEN m
    ELSE [indices |-> Put(m.indices, T,
                          IF T \in DOMAIN index_file THEN index_file[T] ELSE << >>),
          corpora |-> Put(m.corpora, T,
                          IF T \in DOMAIN corpus_file THEN corpus_file[T] ELSE << >>),
          loaded_types |-> m.loaded_types \cup {T},
          locks |-> m.locks \cup {T}]

\* what the store holds for T as handler h sees it: memory once loaded, else the files
View(h, T) ==
    LET m == EnsureLoaded(Mem(h), T)
    IN  [index |-> m.indices[T], corpus |-> m.corpora[T]]

SetMem(h, m) ==
    /\ indices' = [indices EXCEPT ![h] = m.indices]
    /\ corpora' = [corpora EXCEPT ![h] = m.corpora]
    /\ loaded_types' = [loaded_types EXCEPT ![h] = m.loaded_types]
    /\ locks' = [locks EXCEPT ![h] = m.locks]

\* FaissHandler.save with the index file left as it was
SaveCorpusOnly(h, m, T) ==
    LET m1 == EnsureLoaded(m, T)
    IN  /\ SetMem(h, m1)
        /\ index_file' = index_file
        /\ corpus_file' = Put(corpus_file, T, m1.corpora[T])

\* FaissHandler.save: memory m of handler h written to the files of T
Save(h, m, T) ==
    LET m1 == EnsureLoaded(m, T)
    IN  /\ SetMem(h, m1)
        /\ index_file' = Put(index_file, T, m1.indices[T])
        /\ corpus_file' = Put(corpus_file, T, m1.corpora[T])

NoCall == [op |-> "none"]

\* the item of the successful add that returned last, also through the
\* construction of a new handler
JustAdded ==
    IF last.op = "add" /\ last.ret = "Stored in FAISS."
    THEN [T |-> last.T, item |-> <<last.text, last.meta>>]
    ELSE IF last.op = "new" THEN last.added
    ELSE NoCall

CallRecord(op, h, T, text, meta, ret) ==
    [op |-> op, h |-> h, T |-> T, text |-> text, meta |-> meta, ret |-> ret,
     pre |-> View(h, T),
     files |-> [index |-> index_file, corpus |-> corpus_file],
     fresh |-> T \notin loaded_types[h],
     added |-> IF JustAdded # NoCall /\ JustAdded.T = T THEN JustAdded ELSE NoCall,
     cleared |-> last.op = "clear" /\ last.h = h /\ last.T = T,
     again |-> last.op = op /\ last.h = h /\ last.T = T]

\* FaissHandler.add without the test for blank text
AddEmbedsBlank(h, text, meta, T) ==
    LET m1 == EnsureLoaded(Mem(h), T)
    IN  /\ Len(m1.corpora[T]) < MaxItems
        /\ Save(h,
                [m1 EXCEPT !.indices[T] = Append(@, Encode(text)),
                           !.corpora[T] = Append(@, <<text, meta>>)],
                T)
        /\ last' = CallRecord("add", h, T, text, meta, "Stored in FAISS.")

\* FaissHandler.add
Add(h, text, meta, T) ==
    LET m1 == EnsureLoaded(Mem(h), T)
    IN  IF Strip(text) = << >>
        THEN /\ SetMem(h, m1)
             /\ UNCHANGED <<index_file, corpus_file>>
             /\ last' = CallRecord("add", h, T, text, meta, "Empty text, cannot embed.")
        ELSE /\ Len(m1.corpora[T]) < MaxItems
             /\ Save(h,
                     [m1 EXCEPT !.indices[T] = Append(@, Encode(text)),
                                !.corpora[T] = Append(@, <<text, meta>>)],
                     T)
             /\ last' = CallRecord("add", h, T, text, meta, "Stored in FAISS.")

\* a file that does not exist
NoFile == [exists |-> FALSE]

\* most items a data type holds after a migration
MaxMigrated == 4

\* the legacy files an older version left behind: the pair of one item, the
\* pair of two items, a pair whose second corpus entry is no (text, filename)
\* pair, and one file without the other
LegacyStates ==
    {[index |-> [vectors |-> <<Encode(<<"x">>)>>],
      corpus |-> [entries |-> << <<<<"x">>, "old1.pdf">> >>]],
     [index |-> [vectors |-> <<Encode(<<"x">>), Encode(<<"y">>)>>],
      corpus |-> [entries |-> << <<<<"x">>, "old1.pdf">>, <<<<"y">>, "old2.pdf">> >>]],
     [index |-> [vectors |-> <<Encode(<<"x">>), Encode(<<"y">>)>>],
      corpus |-> [entries |-> << <<<<"x">>, "old1.pdf">>, <<<<"y">>>> >>]],
     [index |-> [vectors |-> <<Encode(<<"x">>)>>], corpus |-> NoFile],
     [index |-> NoFile, corpus |-> [entries |-> << <<<<"x">>, "old1.pdf">> >>]]}

\* the older version wrote its files
LegacyWritten(files) ==
    /\ legacy_index_file = NoFile
    /\ legacy_corpus_file = NoFile
    /\ legacy_index_file' = files.index
    /\ legacy_corpus_file' = files.corpus
    /\ last' = [op |-> "legacy"]
    /\ UNCHANGED <<indices, corpora, loaded_types, locks, index_file, corpus_file>>

\* the loop of lines 135-137: the entries appended before the first one that
\* does not unpack into (text, filename)
RECURSIVE ConvertEntries(_)
ConvertEntries(legacy_corpus) ==
    IF legacy_corpus = << >> \/ Len(Head(legacy_corpus)) # 2
    THEN << >>
    ELSE << <<Head(legacy_corpus)[1], [filename |-> Head(legacy_corpus)[2]]>> >>
             \o ConvertEntries(Tail(legacy_corpus))

\* where the environment makes a migration fail: reading the legacy files
\* (lines 123-125) or writing the new ones (line 140)
MigrationFaults == {"none", "read", "save"}

\* FaissHandler.migrate_legacy_data with the vectors copied and the corpus left
MigrateVectorsOnly(h, T, fault) ==
    LET m1 == EnsureLoaded(Mem(h), T)
    IN  /\ legacy_index_file # NoFile /\ legacy_corpus_file # NoFile /\ fault = "none"
        /\ Len(m1.corpora[T]) + Len(legacy_corpus_file.entries) <= MaxMigrated
        /\ Save(h, [m1 EXCEPT !.indices[T] = @ \o legacy_index_file.vectors], T)
        /\ last' = CallRecord("migrate", h, T, << >>, [fault |-> fault], [ok |-> TRUE])
        /\ UNCHANGED legacyVars

\* FaissHandler.migrate_legacy_data(target_data_type = T)
MigrateLegacyData(h, T, fault) ==
    LET m1 == EnsureLoaded(Mem(h), T)
    IN  IF legacy_index_file = NoFile \/ legacy_corpus_file = NoFile \/ fault = "read"
        THEN /\ last' = CallRecord("migrate", h, T, << >>, [fault |-> fault], [ok |-> FALSE])
             /\ UNCHANGED <<indices, corpora, loaded_types, locks, index_file, corpus_file,
                            legacyVars>>
        ELSE LET legacy_corpus == legacy_corpus_file.entries
                 m2 == [m1 EXCEPT !.indices[T] = @ \o legacy_index_file.vectors,
                                  !.corpora[T] = @ \o ConvertEntries(legacy_corpus)]
             IN  /\ Len(m1.corpora[T]) + Len(legacy_corpus) <= MaxMigrated
                 /\ IF Len(ConvertEntries(legacy_corpus)) < Len(legacy_corpus)
                       \/ fault = "save"
                    THEN /\ SetMem(h, m2)
                         /\ UNCHANGED <<index_file, corpus_file>>
                         /\ last' = CallRecord("migrate", h, T, << >>, [fault |-> fault],
                                               [ok |-> FALSE])
                    ELSE /\ Save(h, m2, T)
                         /\ last' = CallRecord("migrate", h, T, << >>, [fault |-> fault],
                                               [ok |-> TRUE])
                 /\ UNCHANGED legacyVars

\* no filter_fn argument
NoFilter == [none |-> TRUE]

\* the (query_text, top_k, filter_fn) arguments callers pass to search; a
\* filter accepts the items of one file
SearchInputs ==
    { << <<"a">>, 0, NoFilter >>,
      << <<"a">>, 1, NoFilter >>,
      << <<"a">>, 3, NoFilter >>,
      << <<"a">>, 3, [filename |-> "r1.pdf"] >> }

\* the squared L2 distance of two vectors: the positions at which they differ
Distance(u, v) ==
    LET n == IF Len(u.vec) < Len(v.vec) THEN Len(v.vec) ELSE Len(u.vec)
    IN  Cardinality({i \in 1..n :
            \/ i > Len(u.vec)
            \/ i > Len(v.vec)
            \/ u.vec[i] # v.vec[i]})

\* the label and the distance faiss reports where the index has too few vectors
NoHit == [label |-> -1, distance |-> [fltmax |-> TRUE]]

\* similarity_score = 1 - distance
Similarity(distance) ==
    IF distance = NoHit.distance THEN [minus_fltmax |-> TRUE] ELSE [d |-> 1 - distance.d]

\* IndexFlatL2.search(query_embedding, top_k): the top_k nearest vectors by
\* ascending distance, equal distances in any order, padded with NoHit; for
\* top_k = 0 the binding raises or returns no labels, by its version
IndexSearch(index, query_embedding, top_k) ==
    IF top_k = 0
    THEN {[raised |-> "AssertionError"], [hits |-> << >>]}
    ELSE LET n == Len(index)
             orders == {p \in [1..n -> 1..n] :
                          /\ \A i, j \in 1..n : i # j => p[i] # p[j]
                          /\ \A i \in 1..(n - 1) :
                                 Distance(index[p[i]], query_embedding)
                                     <= Distance(index[p[i + 1]], query_embedding)}
         IN  {[hits |-> [k \in 1..top_k |->
                  IF k <= n
                  THEN [label |-> p[k] - 1,
                        distance |-> [d |-> Distance(index[p[k]], query_embedding)]]
                  ELSE NoHit]] : p \in orders}

\* corpus[i] of Python: a negative i counts from the end
ItemAt(corpus, i) == corpus[IF i < 0 THEN Len(corpus) + i + 1 ELSE i + 1]

\* the loop of search over the labels I[0]
RECURSIVE Results(_, _, _)
Results(corpus, hits, filter_fn) ==
    IF hits = << >> THEN << >>
    ELSE LET hit == Head(hits)
             rest == Results(corpus, Tail(hits), filter_fn)
         IN  IF hit.label < Len(corpus)
                /\ (filter_fn = NoFilter \/ ItemAt(corpus, hit.label)[2] = filter_fn)
             THEN << [text |-> ItemAt(corpus, hit.label)[1],
                      meta |-> ItemAt(corpus, hit.label)[2],
                      similarity |-> Similarity(hit.distance)] >> \o rest
             ELSE rest

\* what search returns or raises once the data type is loaded (lines 78-96)
SearchOutcomes(index, corpus, query_text, top_k, filter_fn) ==
    IF corpus = << >>
    THEN {[results |-> << >>]}
    ELSE {IF found = [raised |-> "AssertionError"]
          THEN found
          ELSE [results |-> Results(corpus, found.hits, filter_fn)]
            : found \in IndexSearch(index, Encode(query_text), top_k)}

\* FaissHandler.search
Search(h, query_text, T, top_k, filter_fn) ==
    LET m1 == EnsureLoaded(Mem(h), T)
        args == [top_k |-> top_k, filter_fn |-> filter_fn]
    IN  /\ SetMem(h, m1)
        /\ UNCHANGED <<index_file, corpus_file>>
        /\ \E ret \in SearchOutcomes(m1.indices[T], m1.corpora[T], query_text, top_k,
                                      filter_fn) :
               last' = CallRecord("search", h, T, query_text, args, ret)

\* FaissHandler.get_corpus
GetCorpus(h, T) ==
    LET m1 == EnsureLoaded(Mem(h), T)
    IN  /\ SetMem(h, m1)
        /\ UNCHANGED <<index_file, corpus_file>>
        /\ last' = CallRecord("get_corpus", h, T, << >>, << >>, m1.corpora[T])

\* FaissHandler.clear
Clear(h, T) ==
    /\ Save(h,
            [Mem(h) EXCEPT !.indices = Put(@, T, << >>),
                           !.corpora = Put(@, T, << >>)],
            T)
    /\ last' = CallRecord("clear", h, T, << >>, << >>, "None")

\* FaissHandler(): a pipeline call constructs a new handler over the same files
NewHandler(h) ==
    /\ Mem(h) # NewMem
    /\ SetMem(h, NewMem)
    /\ UNCHANGED <<index_file, corpus_file>>
    /\ last' = [op |-> "new", h |-> h, added |-> JustAdded]


(***************************************************************************)
(* Concurrent callers of one FaissHandler: every statement of add, clear,  *)
(* save and _ensure_loaded is one step of the calling thread.              *)
(***************************************************************************)
Threads == {"t1", "t2"}

\* the handler and the data type the threads share
SharedHandler == "h1"

SharedType == "resume"

\* the calls a thread makes: add of its own text, clear, save
ThreadCalls(t) ==
    { [op |-> "add", text |-> <<t>>, meta |-> [filename |-> "r1.pdf"]],
      [op |-> "clear", text |-> << >>, meta |-> << >>],
      [op |-> "save", text |-> << >>, meta |-> << >>] }

\* no Lock object
NoLock == [lock |-> 0]

\* threading.Lock(): the next new object
NewLock == [lock |-> lock_state.made + 1]

Goto(t, label) == threads' = [threads EXCEPT ![t].pc = label]

\* the call of _ensure_loaded(data_type) that returns to the statement after
EnsureLoadedThen(t, after) ==
    threads' = [threads EXCEPT ![t].pc = "el_check", ![t].after = after]

\* a call starts: add and save call _ensure_loaded first (lines 65, 56)
Begin(t, c) ==
    /\ threads[t].pc = "idle"
    /\ threads[t].calls < MaxCalls
    /\ threads' = [threads EXCEPT
                      ![t].pc = IF c.op = "clear" THEN "clear_index" ELSE "el_check",
                      ![t].after = IF c.op = "add" THEN "add_strip" ELSE "save_index",
                      ![t].call = c,
                      ![t].calls = @ + 1]
    /\ UNCHANGED <<storeVars, lock_state>>

\* line 29: if data_type in self._loaded_types: return
ElCheck(t) ==
    /\ threads[t].pc = "el_check"
    /\ Goto(t, IF SharedType \in loaded_types[SharedHandler]
               THEN threads[t].after ELSE "el_lockcheck")
    /\ UNCHANGED <<storeVars, lock_state>>

\* line 32: if data_type not in self._locks
ElLockCheck(t) ==
    /\ threads[t].pc = "el_lockcheck"
    /\ Goto(t, IF SharedType \in locks[SharedHandler] THEN "el_with" ELSE "el_lockcreate")
    /\ UNCHANGED <<storeVars, lock_state>>

\* line 33: self._locks[data_type] = threading.Lock()
ElLockCreate(t) ==
    /\ threads[t].pc = "el_lockcreate"
    /\ locks' = [locks EXCEPT ![SharedHandler] = @ \cup {SharedType}]
    /\ lock_state' = [lock_state EXCEPT !.object = NewLock, !.made = @ + 1]
    /\ Goto(t, "el_with")
    /\ UNCHANGED <<indices, corpora, loaded_types, index_file, corpus_file, last>>

\* line 34: the operand self._locks[data_type] of the with statement
ElWith(t) ==
    /\ threads[t].pc = "el_with"
    /\ threads' = [threads EXCEPT ![t].pc = "el_acquire", ![t].lock = lock_state.object]
    /\ UNCHANGED <<storeVars, lock_state>>

\* line 34: the with statement acquires that Lock once it is free
ElAcquire(t) ==
    /\ threads[t].pc = "el_acquire"
    /\ threads[t].lock \notin lock_state.held
    /\ lock_state' = [lock_state EXCEPT !.held = @ \cup {threads[t].lock}]
    /\ Goto(t, "el_recheck")
    /\ UNCHANGED storeVars

\* lines 35-36: the second test of self._loaded_types, inside the with block
ElRecheck(t) ==
    /\ threads[t].pc = "el_recheck"
    /\ IF SharedType \in loaded_types[SharedHandler]
       THEN /\ lock_state' = [lock_state EXCEPT !.held = @ \ {threads[t].lock}]
            /\ Goto(t, threads[t].after)
       ELSE /\ UNCHANGED lock_state
            /\ Goto(t, "el_index")
    /\ UNCHANGED storeVars

\* lines 38-43: the index read from its file or created, and installed
ElIndex(t) ==
    /\ threads[t].pc = "el_index"
    /\ indices' = [indices EXCEPT ![SharedHandler] =
                      Put(@, SharedType,
                          IF SharedType \in DOMAIN index_file
                          THEN index_file[SharedType] ELSE << >>)]
    /\ lock_state' = [lock_state EXCEPT !.constructions = @ + 1]
    /\ Goto(t, "el_corpus")
    /\ UNCHANGED <<corpora, loaded_types, locks, index_file, corpus_file, last>>

\* lines 45-51: the corpus read from its file or created, and installed
ElCorpus(t) ==
    /\ threads[t].pc = "el_corpus"
    /\ corpora' = [corpora EXCEPT ![SharedHandler] =
                      Put(@, SharedType,
                          IF SharedType \in DOMAIN corpus_file
                          THEN corpus_file[SharedType] ELSE << >>)]
    /\ Goto(t, "el_mark")
    /\ UNCHANGED <<indices, loaded_types, locks, index_file, corpus_file, last, lock_state>>

\* line 52: self._loaded_types.add(data_type); the with block ends
ElMark(t) ==
    /\ threads[t].pc = "el_mark"
    /\ loaded_types' = [loaded_types EXCEPT ![SharedHandler] = @ \cup {SharedType}]
    /\ lock_state' = [lock_state EXCEPT !.held = @ \ {threads[t].lock}]
    /\ Goto(t, threads[t].after)
    /\ UNCHANGED <<indices, corpora, locks, index_file, corpus_file, last>>

\* lines 66-67: blank text is rejected
AddStrip(t) ==
    /\ threads[t].pc = "add_strip"
    /\ Goto(t, IF Strip(threads[t].call.text) = << >> THEN "idle" ELSE "add_index")
    /\ UNCHANGED <<storeVars, lock_state>>

\* lines 68-70: self._indices[data_type].add(embedding)
AddIndex(t) ==
    /\ threads[t].pc = "add_index"
    /\ indices' = [indices EXCEPT ![SharedHandler][SharedType] =
                      Append(@, Encode(threads[t].call.text))]
    /\ Goto(t, "add_corpus")
    /\ UNCHANGED <<corpora, loaded_types, locks, index_file, corpus_file, last, lock_state>>

\* lines 71-72: self._corpora[data_type].append((text, meta)), then save
AddCorpus(t) ==
    /\ threads[t].pc = "add_corpus"
    /\ corpora' = [corpora EXCEPT ![SharedHandler][SharedType] =
                      Append(@, <<threads[t].call.text, threads[t].call.meta>>)]
    /\ EnsureLoadedThen(t, "save_index")
    /\ UNCHANGED <<indices, loaded_types, locks, index_file, corpus_file, last, lock_state>>

\* line 105: self._indices[data_type] = faiss.IndexFlatL2(self.dimension)
ClearIndex(t) ==
    /\ threads[t].pc = "clear_index"
    /\ indices' = [indices EXCEPT ![SharedHandler] = Put(@, SharedType, << >>)]
    /\ Goto(t, "clear_corpus")
    /\ UNCHANGED <<corpora, loaded_types, locks, index_file, corpus_file, last, lock_state>>

\* lines 106-107: self._corpora[data_type] = [], then save
ClearCorpus(t) ==
    /\ threads[t].pc = "clear_corpus"
    /\ corpora' = [corpora EXCEPT ![SharedHandler] = Put(@, SharedType, << >>)]
    /\ EnsureLoadedThen(t, "save_index")
    /\ UNCHANGED <<indices, loaded_types, locks, index_file, corpus_file, last, lock_state>>

\* line 59: faiss.write_index
SaveIndex(t) ==
    /\ threads[t].pc = "save_index"
    /\ index_file' = Put(index_file, SharedType, indices[SharedHandler][SharedType])
    /\ Goto(t, "save_corpus")
    /\ UNCHANGED <<indices, corpora, loaded_types, locks, corpus_file, last, lock_state>>

\* lines 60-61: pickle.dump; save returns, and so does the add or clear around it
SaveCorpus(t) ==
    /\ threads[t].pc = "save_corpus"
    /\ corpus_file' = Put(corpus_file, SharedType, corpora[SharedHandler][SharedType])
    /\ Goto(t, "idle")
    /\ UNCHANGED <<indices, corpora, loaded_types, locks, index_file, last, lock_state>>

ConcInit ==
    /\ threads = [t \in Threads |->
                     [pc |-> "idle", after |-> "idle", call |-> NoCall,
                      lock |-> NoLock, calls |-> 0]]
    /\ lock_state = [object |-> NoLock, held |-> {}, made |-> 0, constructions |-> 0]

(***************************************************************************)
(* Python and JSON values: every value is a record with one field naming   *)
(* its type.                                                               *)
(***************************************************************************)
Str(s) == [str |-> s]
Num(n) == [num |-> n]
List(q) == [list |-> q]
Dict(f) == [dict |-> f]
None == [none |-> TRUE]
\* float('nan')
NaN == [nan |-> TRUE]
\* a raised exception
Exc(name) == [exc |-> name]

IsStr(v) == DOMAIN v = {"str"}
IsNum(v) == DOMAIN v = {"num"}
IsList(v) == DOMAIN v = {"list"}
IsDict(v) == DOMAIN v = {"dict"}
IsExc(v) == DOMAIN v = {"exc"}
IsNaN(v) == DOMAIN v = {"nan"}

\* a string is a sequence of text pieces: a piece is one character or a run of
\* characters that holds no brace, bracket, quote, comma, colon or whitespace
Key(name) == <<name>>

\* key in d, for a dict d
Has(d, k) == k \in DOMAIN d.dict

\* d[key], for a key d has
Get(d, k) == d.dict[k]

\* bool(v)
Truthy(v) ==
    CASE IsStr(v) -> v.str # << >>
      [] IsList(v) -> v.list # << >>
      [] IsDict(v) -> DOMAIN v.dict # {}
      [] IsNum(v) -> v.num # 0
      [] OTHER -> FALSE

\* the characters the failure strings start with
CrossMark == "U+274C"
WarningSign == "U+26A0"

\* str.startswith(c), for a one-character c
StartsWith(v, c) == Len(v.str) > 0 /\ v.str[1] = c

\* needle in hay, for strings as character sequences
Contains(needle, hay) ==
    \E i \in 0..(Len(hay) - Len(needle)) :
        SubSeq(hay, i + 1, i + Len(needle)) = needle

UpperCase == <<"R", "A", "T", "E", "L", "I", "M">>
LowerCase == <<"r", "a", "t", "e", "l", "i", "m">>

LowerChar(c) ==
    IF \E i \in 1..Len(UpperCase) : UpperCase[i] = c
    THEN LowerCase[CHOOSE i \in 1..Len(UpperCase) : UpperCase[i] = c]
    ELSE c

\* str.lower()
Lower(s) == [i \in 1..Len(s) |-> LowerChar(s[i])]

Digits == <<"0", "1", "2", "3", "4", "5", "6", "7", "8", "9">>

\* str(n) of an int n >= 0: its digits
RECURSIVE Decimal(_)
Decimal(n) == IF n < 10 THEN <<Digits[n + 1]>> ELSE Append(Decimal(n \div 10), Digits[(n % 10) + 1])

(***************************************************************************)
(*                    call_llm_api (tools/llm_api.py)                      *)
(***************************************************************************)
\* largest max_retries a caller passes
MaxRetries == 3

Prompts == {<<"p1">>, <<"p2">>}

Providers == {"openrouter", "local"}

\* the arguments of a call
CallInputs ==
    [role : {"sys"}, user_prompt : Prompts, provider : Providers,
     max_tokens : {700}, max_retries : 0..MaxRetries]

\* cache_key = (role, user_prompt, provider, max_tokens)
CacheKey(c) == <<c.role, c.user_prompt, c.provider, c.max_tokens>>

\* message.content of a completion: a text, or null
Contents == {Str(<<"ok">>), None}

\* bodies of a 200 response: response.json() raises on the one that is no JSON
Bodies200 ==
    {[json |-> TRUE,
      data |-> Dict(Key("choices") :> List(<<Dict(Key("message") :> Dict(Key("content") :> c))>>))]
        : c \in Contents}
    \cup
    {[json |-> TRUE, data |-> Dict(Key("choices") :> List(<< >>))],
     [json |-> TRUE, data |-> Dict(Key("error") :> Str(<<"bad">>))],
     [json |-> TRUE, data |-> Dict(Key("choices") :> List(<<Dict(Key("text") :> Str(<<"ok">>))>>))],
     [json |-> TRUE, data |-> List(<< >>)],
     [json |-> FALSE]}

\* error messages of a 429 body
ErrorMessages ==
    { <<"R", "a", "t", "e", " ", "l", "i", "m", "i", "t", " ", "h", "i", "t">>,
      <<"R", "A", "T", "E", " ", "L", "I", "M", "I", "T">>,
      <<"r", "a", "t", "e", "-", "l", "i", "m", "i", "t", "e", "d">>,
      <<"b", "u", "s", "y">> }

Bodies429 ==
    {[json |-> TRUE, data |-> Dict(Key("error") :> Dict(Key("message") :> Str(m)))]
        : m \in ErrorMessages}
    \cup
    {[json |-> TRUE, data |-> Dict(Key("error") :> Dict(Key("code") :> Num(429)))],
     [json |-> TRUE, data |-> Dict(Key("detail") :> Str(<<"busy">>))],
     [json |-> TRUE, data |-> Dict(Key("error") :> Str(<<"busy">>))],
     [json |-> TRUE, data |-> Dict(Key("error") :> Dict(Key("message") :> None))],
     [json |-> TRUE, data |-> List(<< >>)],
     [json |-> FALSE]}

\* what requests.post does: it raises, or it returns a response
Responses ==
    {[raised |-> "ConnectionError"]}
    \cup {[status |-> 200, body |-> b] : b \in Bodies200}
    \cup {[status |-> 429, body |-> b] : b \in Bodies429}
    \cup {[status |-> 500, body |-> [json |-> FALSE]],
          [status |-> 404, body |-> [json |-> TRUE, data |-> Dict(Key("error") :> Str(<<"bad">>))]]}

\* random.uniform(0, 1) in tenths
Jitters == {0, 9}


NoResp == [none |-> TRUE]

NoRet == [via |-> "none"]

\* the failure strings
UnsupportedProvider(c) == Str(<<CrossMark, " Unsupported provider: ", c.provider>>)
UnexpectedStructure == Str(<<CrossMark, " Unexpected response structure: ", "data">>)
FailedToParse == Str(<<CrossMark, " Failed to parse JSON: ", "e", " | Raw: ", "text">>)
DailyLimitReached == Str(<<CrossMark, " **Daily API Limit Reached** ", CrossMark>>)
ProviderError(c, resp) ==
    Str(<<CrossMark, " ", c.provider, " error: ">> \o Decimal(resp.status) \o <<" - ", "text">>)
RequestFailed(c) ==
    Str(<<CrossMark, " Request failed after ">> \o Decimal(c.max_retries)
            \o <<" attempts: ", "e">>)
MaxRetriesExceeded(c) ==
    Str(<<CrossMark, " Max retries (">> \o Decimal(c.max_retries) \o <<") exceeded">>)

\* data['choices'][0]['message']['content'], or the exception it raises
ChatContent(data) ==
    LET choices == Get(data, Key("choices"))
        first == choices.list[1]
        message == Get(first, Key("message"))
    IN  IF ~IsList(choices) THEN Exc("TypeError")
        ELSE IF ~IsDict(first) THEN Exc("TypeError")
        ELSE IF ~Has(first, Key("message")) THEN Exc("KeyError")
        ELSE IF ~IsDict(message) THEN Exc("TypeError")
        ELSE IF ~Has(message, Key("content")) THEN Exc("KeyError")
        ELSE Get(message, Key("content"))

\* the branch of status 200: every path caches its result and returns it
On200(resp) ==
    IF ~resp.body.json
    THEN [do |-> "return", value |-> FailedToParse, via |-> "parse", cache |-> TRUE]
    ELSE LET data == resp.body.data
         IN  IF IsDict(data) /\ Has(data, Key("choices")) /\ Truthy(Get(data, Key("choices")))
             THEN IF IsExc(ChatContent(data))
                  THEN [do |-> "return", value |-> FailedToParse, via |-> "parse",
                        cache |-> TRUE]
                  ELSE [do |-> "return", value |-> ChatContent(data),
                        via |-> "completion", cache |-> TRUE]
             ELSE [do |-> "return", value |-> UnexpectedStructure, via |-> "structure",
                   cache |-> TRUE]

\* error_data.get("error", {}).get("message", ""), or the exception it raises
ErrorMessage(body) ==
    IF ~body.json THEN Exc("JSONDecodeError")
    ELSE IF ~IsDict(body.data) THEN Exc("AttributeError")
    ELSE LET error == IF Has(body.data, Key("error")) THEN Get(body.data, Key("error"))
                      ELSE Dict(EmptyDict)
         IN  IF ~IsDict(error) THEN Exc("AttributeError")
             ELSE IF Has(error, Key("message")) THEN Get(error, Key("message"))
             ELSE Str(<< >>)

\* the check without .lower()
IsDailyLimitCaseSensitive(body) ==
    LET m == ErrorMessage(body)
    IN  /\ IsStr(m)
        /\ Contains(<<"r", "a", "t", "e", " ", "l", "i", "m", "i", "t">>, m.str)

\* "rate limit" in error_message.lower(); an exception of the try block counts as no
IsDailyLimit(body) ==
    LET m == ErrorMessage(body)
    IN  /\ IsStr(m)
        /\ Contains(<<"r", "a", "t", "e", " ", "l", "i", "m", "i", "t">>, Lower(m.str))

\* the retry test without the "- 1": a sleep follows the last attempt too
RetryOrSleepsAgain(c, att, value, via) ==
    IF att < c.max_retries
    THEN [do |-> "sleep"]
    ELSE [do |-> "return", value |-> value, via |-> via, cache |-> FALSE]

\* attempt < max_retries - 1: sleep and go round again, else give up with value
RetryOr(c, att, value, via) ==
    IF att < c.max_retries - 1
    THEN [do |-> "sleep"]
    ELSE [do |-> "return", value |-> value, via |-> via, cache |-> FALSE]

\* the branch of status 429
On429(resp, c, att) ==
    IF IsDailyLimit(resp.body)
    THEN [do |-> "return", value |-> DailyLimitReached, via |-> "quota", cache |-> FALSE]
    ELSE RetryOr(c, att, ProviderError(c, resp), "ratelimit")

\* any other status
OnOtherStatus(resp, c, att) ==
    [do |-> "return", value |-> ProviderError(c, resp), via |-> "status", cache |-> FALSE]

\* the exception of requests.post leaving the function
OnExceptionPropagates(c, att) ==
    [do |-> "return", value |-> Exc("ConnectionError"), via |-> "raised", cache |-> FALSE]

\* the except branch of the loop body
OnException(c, att) == RetryOr(c, att, RequestFailed(c), "transport")

\* one pass through the loop body, given what requests.post did
LoopBody(resp, c, att) ==
    IF "raised" \in DOMAIN resp THEN OnException(c, att)
    ELSE IF resp.status = 200 THEN On200(resp)
    ELSE IF resp.status = 429 THEN On429(resp, c, att)
    ELSE OnOtherStatus(resp, c, att)

\* a return statement of call_llm_api
Return(value, via) ==
    /\ pc' = "returned"
    /\ result' = [value |-> value, via |-> via]
    /\ called' = called \cup {CacheKey(call'.args)}

\* a lookup under a key that includes max_retries
LookupWithRetries(c) == <<c.role, c.user_prompt, c.provider, c.max_tokens, c.max_retries>> \in DOMAIN llm_cache

\* the cache lookup
Lookup(c) == CacheKey(c) \in DOMAIN llm_cache

\* call_llm_api up to the first requests.post
Start(c) ==
    /\ pc \in {"idle", "returned"}
    /\ call' = [args |-> c,
                repeat |-> CacheKey(c) \in called,
                after200 |-> CacheKey(c) \in DOMAIN answered]
    /\ attempt' = 0
    /\ nreq' = 0
    /\ sleeps' = << >>
    /\ lastResp' = NoResp
    /\ UNCHANGED <<llm_cache, answered>>
    /\ IF Lookup(c)
       THEN Return(llm_cache[CacheKey(c)], "cached")
       ELSE IF c.provider # "openrouter"
       THEN Return(UnsupportedProvider(c), "unsupported")
       ELSE IF 0 < c.max_retries
       THEN pc' = "request" /\ result' = NoRet /\ UNCHANGED called
       ELSE Return(MaxRetriesExceeded(c), "exceeded")

\* one requests.post and what the loop body does with its outcome
Attempt(resp) ==
    /\ pc = "request"
    /\ nreq' = nreq + 1
    /\ lastResp' = resp
    /\ answered' = IF "status" \in DOMAIN resp /\ resp.status = 200
                   THEN Put(answered, CacheKey(call.args),
                            LoopBody(resp, call.args, attempt).via)
                   ELSE answered
    /\ UNCHANGED <<call, attempt>>
    /\ LET step == LoopBody(resp, call.args, attempt)
       IN  IF step.do = "return"
           THEN /\ Return(step.value, step.via)
                /\ llm_cache' = IF step.cache
                                THEN Put(llm_cache, CacheKey(call.args), step.value)
                                ELSE llm_cache
                /\ UNCHANGED sleeps
           ELSE /\ pc' = "sleep"
                /\ \E j \in Jitters :
                       sleeps' = Append(sleeps, [base |-> 2 ^ attempt, jitter |-> j])
                /\ UNCHANGED <<llm_cache, result, called>>

\* time.sleep returns and the loop goes round
Continue ==
    /\ pc = "sleep"
    /\ attempt' = attempt + 1
    /\ UNCHANGED <<llm_cache, call, nreq, sleeps, lastResp, answered>>
    /\ IF attempt + 1 < call.args.max_retries
       THEN pc' = "request" /\ UNCHANGED <<result, called>>
       ELSE Return(MaxRetriesExceeded(call.args), "exceeded")

\* the arguments and the outcomes of requests.post of the concurrent callers
ConcCallInputs == {c \in CallInputs : c.max_retries \in {0, 2}}

ConcResponses ==
    {[raised |-> "ConnectionError"],
     [status |-> 500, body |-> [json |-> FALSE]],
     [status |-> 429, body |-> [json |-> TRUE, data |-> Dict(Key("detail") :> Str(<<"busy">>))]],
     [status |-> 200, body |-> [json |-> FALSE]]}
    \cup {[status |-> 200,
           body |-> [json |-> TRUE,
                     data |-> Dict(Key("choices") :>
                                 List(<<Dict(Key("message") :> Dict(Key("content") :> c))>>))]]
            : c \in Contents}

\* a return statement of the call of thread t
CallerReturn(t, value) ==
    callers' = [callers EXCEPT ![t].pc = "idle", ![t].result = value]

\* call_llm_api of thread t up to its first requests.post
CallerStart(t, c) ==
    /\ callers[t].pc = "idle"
    /\ callers[t].calls < MaxCalls
    /\ LET begun == [callers EXCEPT ![t].args = c, ![t].attempt = 0, ![t].calls = @ + 1]
       IN  IF Lookup(c)
           THEN callers' = [begun EXCEPT ![t].result = llm_cache[CacheKey(c)]]
           ELSE IF c.provider # "openrouter"
           THEN callers' = [begun EXCEPT ![t].result = UnsupportedProvider(c)]
           ELSE IF 0 < c.max_retries
           THEN callers' = [begun EXCEPT ![t].pc = "request", ![t].result = NoRet]
           ELSE callers' = [begun EXCEPT ![t].result = MaxRetriesExceeded(c)]
    /\ UNCHANGED <<llmVars, first_write>>

\* one requests.post of thread t and what the loop body does with its outcome
CallerAttempt(t, resp) ==
    /\ callers[t].pc = "request"
    /\ LET c == callers[t].args
           step == LoopBody(resp, c, callers[t].attempt)
       IN  IF step.do = "return"
           THEN /\ CallerReturn(t, step.value)
                /\ llm_cache' = IF step.cache
                                THEN Put(llm_cache, CacheKey(c), step.value)
                                ELSE llm_cache
                /\ first_write' = IF step.cache /\ CacheKey(c) \notin DOMAIN first_write
                                  THEN Put(first_write, CacheKey(c), step.value)
                                  ELSE first_write
           ELSE /\ callers' = [callers EXCEPT ![t].pc = "sleep"]
                /\ UNCHANGED <<llm_cache, first_write>>
    /\ UNCHANGED <<pc, call, attempt, nreq, sleeps, lastResp, result, called, answered>>

\* time.sleep of thread t returns and its loop goes round
CallerContinue(t) ==
    /\ callers[t].pc = "sleep"
    /\ IF callers[t].attempt + 1 < callers[t].args.max_retries
       THEN callers' = [callers EXCEPT ![t].pc = "request", ![t].attempt = @ + 1]
       ELSE callers' = [callers EXCEPT ![t].pc = "idle", ![t].attempt = @ + 1,
                                       ![t].result = MaxRetriesExceeded(callers[t].args)]
    /\ UNCHANGED <<llmVars, first_write>>

LlmConcInit ==
    /\ callers = [t \in Threads |->
                     [pc |-> "idle", args |-> NoCall, attempt |-> 0,
                      result |-> NoRet, calls |-> 0]]
    /\ first_write = EmptyDict

LlmInit ==
    /\ llm_cache = EmptyDict
    /\ pc = "idle"
    /\ call = [args |-> [role |-> "sys", user_prompt |-> <<"p1">>, provider |-> "openrouter",
                         max_tokens |-> 700, max_retries |-> 0],
               repeat |-> FALSE, after200 |-> FALSE]
    /\ attempt = 0
    /\ nreq = 0
    /\ sleeps = << >>
    /\ lastResp = NoResp
    /\ result = NoRet
    /\ called = {}
    /\ answered = EmptyDict


(***************************************************************************)
(*                           json.loads                                    *)
(***************************************************************************)
\* whitespace json.loads skips
JsonWhitespace == {" ", "\n"}

IsDigit(c) == \E d \in 1..Len(Digits) : Digits[d] = c

DigitValue(c) == (CHOOSE d \in 1..Len(Digits) : Digits[d] = c) - 1

ParseFailed == [ok |-> FALSE]

Parsed(v, next) == [ok |-> TRUE, val |-> v, next |-> next]

\* the first position from i on that holds no whitespace
RECURSIVE SkipWs(_, _)
SkipWs(s, i) ==
    IF i <= Len(s) /\ s[i] \in JsonWhitespace THEN SkipWs(s, i + 1) ELSE i

\* a string: from the quote at i to the next quote; no control character inside
RECURSIVE ScanString(_, _, _)
ScanString(s, i, j) ==
    IF j > Len(s) THEN ParseFailed
    ELSE IF s[j] = "\"" THEN Parsed(Str(SubSeq(s, i + 1, j - 1)), j + 1)
    ELSE IF s[j] = "\n" THEN ParseFailed
    ELSE ScanString(s, i, j + 1)

\* a number: the run of digits from i on (no leading zero)
RECURSIVE ScanNumber(_, _, _)
ScanNumber(s, j, n) ==
    IF j <= Len(s) /\ IsDigit(s[j])
    THEN ScanNumber(s, j + 1, 10 * n + DigitValue(s[j]))
    ELSE Parsed(Num(n), j)

RECURSIVE ParseValue(_, _)
RECURSIVE ParseElements(_, _, _)
RECURSIVE ParseMembers(_, _, _)

\* the elements of an array from i on, the first one at i
ParseElements(s, i, acc) ==
    LET v == ParseValue(s, i)
        j == SkipWs(s, v.next)
    IN  IF ~v.ok THEN ParseFailed
        ELSE IF j > Len(s) THEN ParseFailed
        ELSE IF s[j] = "]" THEN Parsed(List(Append(acc, v.val)), j + 1)
        ELSE IF s[j] = "," THEN ParseElements(s, SkipWs(s, j + 1), Append(acc, v.val))
        ELSE ParseFailed

\* the members of an object from i on, the first key at i
ParseMembers(s, i, acc) ==
    LET k == IF i <= Len(s) /\ s[i] = "\"" THEN ScanString(s, i, i + 1) ELSE ParseFailed
        c == SkipWs(s, k.next)
        v == ParseValue(s, SkipWs(s, c + 1))
        j == SkipWs(s, v.next)
    IN  IF ~k.ok THEN ParseFailed
        ELSE IF c > Len(s) \/ s[c] # ":" THEN ParseFailed
        ELSE IF ~v.ok THEN ParseFailed
        ELSE IF j > Len(s) THEN ParseFailed
        ELSE IF s[j] = "}" THEN Parsed(Dict(Put(acc, k.val.str, v.val)), j + 1)
        ELSE IF s[j] = "," THEN ParseMembers(s, SkipWs(s, j + 1), Put(acc, k.val.str, v.val))
        ELSE ParseFailed

\* the value that starts at i
ParseValue(s, i) ==
    IF i > Len(s) THEN ParseFailed
    ELSE IF s[i] = "{"
         THEN LET j == SkipWs(s, i + 1)
              IN  IF j <= Len(s) /\ s[j] = "}" THEN Parsed(Dict(EmptyDict), j + 1)
                  ELSE ParseMembers(s, j, EmptyDict)
    ELSE IF s[i] = "["
         THEN LET j == SkipWs(s, i + 1)
              IN  IF j <= Len(s) /\ s[j] = "]" THEN Parsed(List(<< >>), j + 1)
                  ELSE ParseElements(s, j, << >>)
    ELSE IF s[i] = "\"" THEN ScanString(s, i, i + 1)
    ELSE IF s[i] = "null" THEN Parsed(None, i + 1)
    ELSE IF s[i] = "NaN" THEN Parsed(NaN, i + 1)
    ELSE IF IsDigit(s[i])
         THEN IF s[i] = "0" THEN Parsed(Num(0), i + 1) ELSE ScanNumber(s, i, 0)
    ELSE ParseFailed

\* json.loads(s): the value, or JSONDecodeError
Loads(s) ==
    LET v == ParseValue(s, SkipWs(s, 1))
    IN  IF v.ok /\ SkipWs(s, v.next) > Len(s) THEN v.val ELSE Exc("JSONDecodeError")

\* str(v) of a parsed value that is no dict and no list
StrOf(v) ==
    CASE IsStr(v) -> v
      [] IsNum(v) -> Str(Decimal(v.num))
      [] IsNaN(v) -> Str(<<"nan">>)
      [] OTHER -> Str(<<"None">>)

(***************************************************************************)
(*                 call_llm_api_json (tools/llm_api.py)                    *)
(***************************************************************************)
\* most pieces of a model reply
MaxPieces == 3

\* the pieces replies are made of
Pieces == {"{", "}", "[", "]", "\"", ":", ",", "1", "k", " "}

\* the run of three backticks that opens and closes a code fence
Fence == "(3 backticks)"

RECURSIVE SeqsUpTo(_, _)
SeqsUpTo(S, n) ==
    IF n = 0 THEN {<< >>}
    ELSE LET shorter == SeqsUpTo(S, n - 1)
         IN  shorter \cup {Append(q, x) : q \in {r \in shorter : Len(r) = n - 1}, x \in S}

\* replies of the model: every sequence of pieces up to the bound, and some longer ones
ReplyTexts ==
    SeqsUpTo(Pieces, MaxPieces)
    \cup { <<"Sure!", " ", Fence, "json", "\n", "{", "\"", "relevance_score", "\"", ":", "8", "}", "\n", Fence>>,
           <<"[", "{", "\"", "relevance_score", "\"", ":", "7", "}", "]">>,
           <<"{", "\"", "error", "\"", ":", "1", "}">>,
           <<"{", "\"", "k", "\"", ":", "1", ",", "\"", "k", "\"", ":", "\"", "}", "\"", "}", " ", "ok">>,
           <<"[", "1", ",", "[", "]", ",", "null", "]", "}">>,
           <<"{", "\"", "relevance_score", "\"", ":", " ", "NaN", "}">>,
           <<"NaN">>, <<"null">>,
           <<"1", "0">>, <<"0", "1">>, <<"\"", "\n", "\"">> }

\* the prompt with the instruction appended
EnhancedPrompt(user_prompt) ==
    user_prompt \o <<"\n\nIMPORTANT: Respond with valid JSON only.">>

\* str.find(c) and str.rfind(c), counting from 1; 0 when c is not in s
Find(s, c) ==
    IF \E i \in 1..Len(s) : s[i] = c
    THEN CHOOSE i \in 1..Len(s) : s[i] = c /\ \A j \in 1..(i - 1) : s[j] # c
    ELSE 0

RFind(s, c) ==
    IF \E i \in 1..Len(s) : s[i] = c
    THEN CHOOSE i \in 1..Len(s) : s[i] = c /\ \A j \in (i + 1)..Len(s) : s[j] # c
    ELSE 0

\* str.strip() of a reply
StripWhitespace == {" ", "\n"}

RECURSIVE StripReply(_)
StripReply(s) ==
    IF s # << >> /\ Head(s) \in StripWhitespace THEN StripReply(Tail(s))
    ELSE IF s # << >> /\ s[Len(s)] \in StripWhitespace THEN StripReply(SubSeq(s, 1, Len(s) - 1))
    ELSE s

\* json_str with the closer looked up from the front
JsonStrFirstCloser(text) ==
    LET first_brace == Find(text, "{")
        first_bracket == Find(text, "[")
        json_start == IF first_brace # 0 /\ (first_bracket = 0 \/ first_brace < first_bracket)
                      THEN first_brace
                      ELSE first_bracket
        end_char == IF text[json_start] = "{" THEN "}" ELSE "]"
    IN  IF json_start # 0
        THEN SubSeq(text, json_start, Find(text, end_char))
        ELSE text

\* json_str: the stripped reply from the first opener to the last matching closer
JsonStr(text) ==
    LET first_brace == Find(text, "{")
        first_bracket == Find(text, "[")
        json_start == IF first_brace # 0 /\ (first_bracket = 0 \/ first_brace < first_bracket)
                      THEN first_brace
                      ELSE first_bracket
        end_char == IF text[json_start] = "{" THEN "}" ELSE "]"
    IN  IF json_start # 0
        THEN SubSeq(text, json_start, RFind(text, end_char))
        ELSE text

ErrorRecord(error, raw_response) ==
    Dict(Key("error") :> Str(<<error>>) @@ Key("raw_response") :> raw_response)

ErrorRecordWith(error, raw_response, field, detail) ==
    Dict(Key("error") :> Str(<<error>>) @@ Key("raw_response") :> raw_response
         @@ Key(field) :> Str(<<detail>>))

\* call_llm_api_json after call_llm_api has returned response_text
ParseResponse(response_text) ==
    IF ~IsStr(response_text) THEN Exc("AttributeError")
    ELSE IF StartsWith(response_text, CrossMark) \/ StartsWith(response_text, WarningSign)
    THEN ErrorRecord("LLM API call failed", response_text)
    ELSE LET text == StripReply(response_text.str)
             parsed_json == Loads(JsonStr(text))
         IN  IF IsExc(parsed_json)
             THEN ErrorRecordWith("JSON parsing failed", Str(text), "parsing_error", "e")
             ELSE IF IsDict(parsed_json) \/ IsList(parsed_json)
             THEN parsed_json
             ELSE ErrorRecordWith("Invalid JSON type", StrOf(parsed_json), "parsing_error",
                                  "LLM did not return a JSON object or array as requested.")

\* the arguments of a call of call_llm_api_json
JsonCallInputs ==
    [role : {"sys"}, user_prompt : {<<"p1">>}, provider : Providers,
     max_tokens : {400}, max_retries : {0, 2}]

\* what the provider does with a request of call_llm_api_json
JsonResponses ==
    {[raised |-> "ConnectionError"], [status |-> 500, body |-> [json |-> FALSE]]}
    \cup {[status |-> 200, body |-> b] : b \in Bodies200}
    \cup {[status |-> 200,
           body |-> [json |-> TRUE,
                     data |-> Dict(Key("choices") :>
                                List(<<Dict(Key("message") :> Dict(Key("content") :> Str(t)))>>))]]
            : t \in ReplyTexts}

\* call_llm_api_json up to the first requests.post of its call_llm_api
CallLlmApiJson(c) ==
    /\ json_pc \in {"idle", "returned"}
    /\ Start([c EXCEPT !.user_prompt = EnhancedPrompt(c.user_prompt)])
    /\ json_pc' = "calling"
    /\ json_out' = NoRet

\* call_llm_api has returned: the rest of call_llm_api_json
JsonReturn ==
    /\ json_pc = "calling"
    /\ pc = "returned"
    /\ json_pc' = "returned"
    /\ json_out' = ParseResponse(result.value)
    /\ UNCHANGED llmVars

JsonInit ==
    /\ json_pc = "idle"
    /\ json_out = NoRet

(***************************************************************************)
(*   analyze_course_relevance, rank_and_filter_courses (course_fetcher.py) *)
(***************************************************************************)
\* most courses in one call of rank_and_filter_courses
MaxCourses == 3

\* largest max_results a caller passes
MaxResults == 2

\* analysis.get("relevance_score", 5)
DefaultScore == 5

\* course["relevance_score"] >= 5
RelevanceThreshold == 5

\* the score of a course_data that is no dict
InvalidCourseScore == 0

\* the score of an analysis that failed
FailedAnalysisScore == 1

\* the values of relevance_score in the replies of the model
ScoreTexts == { <<"4">>, <<"5">>, <<"9">>, <<"NaN">>, <<"\"", "8", "\"">> }

\* what call_llm_api hands to call_llm_api_json for an analysis prompt
RankedReplies ==
    {Str(<<"{", "\"", "relevance_score", "\"", ":", " ">> \o t \o <<"}">>) : t \in ScoreTexts}
    \cup {Str(<<"{", "}">>),
          Str(<<"[", "{", "\"", "relevance_score", "\"", ":", "7", "}", "]">>),
          MaxRetriesExceeded([max_retries |-> 3]),
          None}

AnalysisReplies ==
    RankedReplies
    \cup {Str(<<"[", "]">>), Str(<<"[", "1", "]">>), Str(<<"1">>), Str(<<"Sorry">>),
          Str(<<"{", "\"", "error", "\"", ":", "1", "}">>)}

\* what call_llm_api_json returns or raises for these replies
RankedOutcomes == {ParseResponse(r) : r \in RankedReplies}

JsonOutcomes == {ParseResponse(r) : r \in AnalysisReplies}

\* the user_skills a caller passes: a list of strings, or None
UserSkills == {List(<<Str(<<"python">>), Str(<<"sql">>)>>), None}

\* a course that is a dict, and an item that is none
CourseAt(i) == Dict(Key("title") :> Str(<<"course", i>>) @@ Key("url") :> Str(<<"u", i>>))

NonDictCourse == Str(<<"not a course">>)

\* ', '.join(v) returns: v is a string, a dict, or a list of strings
Joinable(v) ==
    \/ IsStr(v)
    \/ IsDict(v)
    \/ IsList(v) /\ \A i \in 1..Len(v.list) : IsStr(v.list[i])

\* the records analyze_course_relevance builds itself
DefaultRecord(score, level, impact, recommendation, reasoning) ==
    Dict(Key("relevance_score") :> Num(score)
         @@ Key("skill_gaps_covered") :> List(<< >>)
         @@ Key("learning_level") :> Str(<<level>>)
         @@ Key("career_impact") :> Str(<<impact>>)
         @@ Key("recommendation") :> Str(<<recommendation>>)
         @@ Key("reasoning") :> Str(reasoning))

InvalidCourseRecord ==
    DefaultRecord(InvalidCourseScore, "Unknown", "Unknown", "Not Recommended",
                  <<"Invalid course data format">>)

FailedRecord(reasoning) ==
    DefaultRecord(FailedAnalysisScore, "Unknown", "Moderate", "Consider", reasoning)

\* the try block without the test for an error record
AnalyzeBodyIgnoresError(course_data, user_skills, target_role, outcome) ==
    IF ~IsDict(course_data) THEN InvalidCourseRecord
    ELSE IF ~Joinable(user_skills) THEN Exc("TypeError")
    ELSE IF IsExc(outcome) THEN outcome
    ELSE LET analysis == IF IsList(outcome) /\ Truthy(outcome)
                         THEN outcome.list[1]
                         ELSE outcome
         IN  IF ~IsDict(analysis)
             THEN FailedRecord(<<"Analysis returned an invalid format.">>)
             ELSE analysis

\* the try block without the unpacking of a list
AnalyzeBodyKeepsList(course_data, user_skills, target_role, outcome) ==
    IF ~IsDict(course_data) THEN InvalidCourseRecord
    ELSE IF ~Joinable(user_skills) THEN Exc("TypeError")
    ELSE IF IsExc(outcome) THEN outcome
    ELSE IF IsDict(outcome) /\ Has(outcome, Key("error"))
    THEN FailedRecord(<<"Analysis failed or was unavailable.">>)
    ELSE IF ~IsDict(outcome)
    THEN FailedRecord(<<"Analysis returned an invalid format.">>)
    ELSE outcome

\* the body of the try block: the value returned, or the exception raised;
\* outcome is what call_llm_api_json returns or raises for the analysis prompt
AnalyzeBody(course_data, user_skills, target_role, outcome) ==
    IF ~IsDict(course_data) THEN InvalidCourseRecord
    ELSE IF ~Joinable(user_skills) THEN Exc("TypeError")
    ELSE IF IsExc(outcome) THEN outcome
    ELSE IF IsDict(outcome) /\ Has(outcome, Key("error"))
    THEN FailedRecord(<<"Analysis failed or was unavailable.">>)
    ELSE LET analysis == IF IsList(outcome) /\ Truthy(outcome)
                         THEN outcome.list[1]
                         ELSE outcome
         IN  IF ~IsDict(analysis)
             THEN FailedRecord(<<"Analysis returned an invalid format.">>)
             ELSE analysis

\* analyze_course_relevance without its except branch
AnalyzeCourseRelevanceNoExcept(course_data, user_skills, target_role, outcome) ==
    AnalyzeBody(course_data, user_skills, target_role, outcome)

\* analyze_course_relevance
AnalyzeCourseRelevance(course_data, user_skills, target_role, outcome) ==
    LET r == AnalyzeBody(course_data, user_skills, target_role, outcome)
    IN  IF IsExc(r) THEN FailedRecord(<<"Analysis error: ", r.exc>>) ELSE r

\* a < b on floats and ints: false when either side is nan
Lt(a, b) == IsNum(a) /\ IsNum(b) /\ a.num < b.num

\* a >= b
Ge(a, b) == IsNum(a) /\ IsNum(b) /\ a.num >= b.num

\* the sort key
ScoreOf(x) == Get(x, Key("relevance_score"))

\* list.reverse()
Reverse(s) == [i \in 1..Len(s) |-> s[Len(s) + 1 - i]]

\* count_run of list.sort: the end of the run that starts at a[1], a[2];
\* i is the next position to look at
RECURSIVE RunEnd(_, _, _)
RunEnd(a, i, descending) ==
    IF i > Len(a) THEN i - 1
    ELSE IF descending = Lt(ScoreOf(a[i]), ScoreOf(a[i - 1]))
    THEN RunEnd(a, i + 1, descending)
    ELSE i - 1

\* the binary search of binarysort: where pivot goes among a[l+1..r]
RECURSIVE Bisect(_, _, _, _)
Bisect(a, pivot, l, r) ==
    IF l >= r THEN l
    ELSE LET p == l + ((r - l) \div 2)
         IN  IF Lt(ScoreOf(pivot), ScoreOf(a[p + 1]))
             THEN Bisect(a, pivot, l, p)
             ELSE Bisect(a, pivot, p + 1, r)

\* binarysort: a[1..start] is sorted, insert the rest one by one
RECURSIVE BinarySort(_, _)
BinarySort(a, start) ==
    IF start >= Len(a) THEN a
    ELSE LET pivot == a[start + 1]
             l == Bisect(a, pivot, 0, start)
         IN  BinarySort(SubSeq(a, 1, l) \o <<pivot>> \o SubSeq(a, l + 1, start)
                            \o SubSeq(a, start + 2, Len(a)),
                        start + 1)

\* list.sort() of fewer than 64 items whose keys are numbers: one run, found
\* by count_run and extended by binarysort
ListSort(a) ==
    IF Len(a) < 2 THEN a
    ELSE LET descending == Lt(ScoreOf(a[2]), ScoreOf(a[1]))
             n == RunEnd(a, 3, descending)
             run == IF descending THEN Reverse(SubSeq(a, 1, n)) ELSE SubSeq(a, 1, n)
         IN  BinarySort(run \o SubSeq(a, n + 1, Len(a)), n)

\* sorted(a, key=lambda x: x["relevance_score"], reverse=True)
SortedReverse(a) == Reverse(ListSort(Reverse(a)))

\* the items of s that satisfy Test, in order
RECURSIVE SelectScored(_)
SelectScored(s) ==
    IF s = << >> THEN << >>
    ELSE IF Ge(ScoreOf(Head(s)), Num(RelevanceThreshold))
    THEN <<Head(s)>> \o SelectScored(Tail(s))
    ELSE SelectScored(Tail(s))

\* s[:n] for n >= 0
Prefix(s, n) == SubSeq(s, 1, IF n < Len(s) THEN n ELSE Len(s))

\* the loop of rank_and_filter_courses from course i on: items that are no
\* dict are skipped, the others are analysed; outcomes[i] is what
\* call_llm_api_json does for course i
RECURSIVE AnalyzedCourses(_, _, _, _, _)
AnalyzedCourses(courses, user_skills, target_role, outcomes, i) ==
    IF i > Len(courses) THEN << >>
    ELSE IF ~IsDict(courses[i])
    THEN AnalyzedCourses(courses, user_skills, target_role, outcomes, i + 1)
    ELSE LET analysis == AnalyzeCourseRelevance(courses[i], user_skills, target_role,
                                                outcomes[i])
             score == IF IsExc(analysis) THEN analysis
                      ELSE IF Has(analysis, Key("relevance_score"))
                      THEN Get(analysis, Key("relevance_score"))
                      ELSE Num(DefaultScore)
             course_with_analysis ==
                 Dict((Key("analysis") :> analysis @@ Key("relevance_score") :> score)
                      @@ courses[i].dict)
         IN  <<course_with_analysis>>
                 \o AnalyzedCourses(courses, user_skills, target_role, outcomes, i + 1)

\* rank_and_filter_courses.  A score that is no number makes a comparison
\* raise TypeError, in the sort when it meets another score and in the filter
\* otherwise; the except branch then returns the empty list, as it does for
\* an exception that leaves analyze_course_relevance.
RankAndFilterCourses(courses, user_skills, target_role, max_results, outcomes) ==
    LET analyzed_courses == AnalyzedCourses(courses, user_skills, target_role, outcomes, 1)
        ranked_courses == SortedReverse(analyzed_courses)
        filtered_courses == SelectScored(ranked_courses)
    IN  IF \E i \in 1..Len(analyzed_courses) :
               LET s == ScoreOf(analyzed_courses[i]) IN ~IsNum(s) /\ ~IsNaN(s)
        THEN List(<< >>)
        ELSE List(Prefix(filtered_courses, max_results))

\* the items of a course list: something that is no dict, or a course together
\* with what call_llm_api_json does for its prompt
RankItems == {[kind |-> "other"]} \cup {[kind |-> "course", outcome |-> o] : o \in RankedOutcomes}

\* neither function has been called yet
RankIdle == rank_in = NoCall /\ analyze_in = NoCall

\* a call of rank_and_filter_courses
RankCall(items, user_skills, max_results) ==
    LET courses == [i \in 1..Len(items) |->
                       IF items[i].kind = "course" THEN CourseAt(i) ELSE NonDictCourse]
        outcomes == [i \in 1..Len(items) |->
                        IF items[i].kind = "course" THEN items[i].outcome ELSE NoRet]
    IN  /\ RankIdle
        /\ rank_in' = [courses |-> courses, outcomes |-> outcomes,
                       user_skills |-> user_skills, max_results |-> max_results]
        /\ rank_out' = RankAndFilterCourses(courses, user_skills, "role", max_results, outcomes)
        /\ UNCHANGED <<analyze_in, analyze_out>>

\* a call of analyze_course_relevance
AnalyzeCall(course_data, user_skills, outcome) ==
    /\ RankIdle
    /\ analyze_in' = [course_data |-> course_data, user_skills |-> user_skills,
                      outcome |-> outcome]
    /\ analyze_out' = AnalyzeCourseRelevance(course_data, user_skills, "role", outcome)
    /\ UNCHANGED <<rank_in, rank_out>>

RankInit ==
    /\ rank_in = NoCall
    /\ rank_out = NoRet
    /\ analyze_in = NoCall
    /\ analyze_out = NoRet

(***************************************************************************)
(*   clean_llm_output, extract_resume_core_info, enhance_resume,           *)
(*   recommend_career_paths (tools/pipeline.py);                           *)
(*   handle_llm_fallback, clean_enhance_resume,                            *)
(*   clean_recommend_career_paths (crew/tools.py)                          *)
(***************************************************************************)
\* text.replace(old, new) for a one-piece old: every old becomes the pieces new
RECURSIVE ReplacePiece(_, _, _)
ReplacePiece(s, old, new) ==
    IF s = << >> THEN << >>
    ELSE (IF Head(s) = old THEN new ELSE <<Head(s)>>) \o ReplacePiece(Tail(s), old, new)

\* text.replace('\t' + bullet, '- ')
RECURSIVE ReplaceTabBullet(_, _)
ReplaceTabBullet(s, bullet) ==
    IF Len(s) < 2 THEN s
    ELSE IF s[1] = "\t" /\ s[2] = bullet
    THEN <<"-", " ">> \o ReplaceTabBullet(SubSeq(s, 3, Len(s)), bullet)
    ELSE <<s[1]>> \o ReplaceTabBullet(Tail(s), bullet)

\* the number of pieces c that s starts with
RECURSIVE RunLength(_, _)
RunLength(s, c) == IF s # << >> /\ Head(s) = c THEN 1 + RunLength(Tail(s), c) ELSE 0

\* re.sub of a run of at least least pieces c by keep of them
RECURSIVE CollapseRuns(_, _, _, _)
CollapseRuns(s, c, least, keep) ==
    IF s = << >> THEN << >>
    ELSE IF Head(s) = c
    THEN LET k == RunLength(s, c)
         IN  (IF k >= least THEN [i \in 1..keep |-> c] ELSE SubSeq(s, 1, k))
                 \o CollapseRuns(SubSeq(s, k + 1, Len(s)), c, least, keep)
    ELSE <<Head(s)>> \o CollapseRuns(Tail(s), c, least, keep)

\* clean_llm_output; the runs of characters among the pieces hold no escape,
\* tab or newline and no two spaces in a row
CleanLlmOutput(text) ==
    IF ~Truthy(text) THEN text
    ELSE LET t1 == ReplacePiece(text.str, "\\n", <<"\n">>)
             t2 == ReplacePiece(t1, "\\t", <<"\t">>)
             t3 == ReplacePiece(t2, "\\r", <<"\r">>)
             t4 == ReplaceTabBullet(t3, "+")
             t5 == ReplaceTabBullet(t4, "-")
             t6 == ReplaceTabBullet(t5, "*")
             t7 == CollapseRuns(t6, "\n", 3, 2)
             t8 == ReplacePiece(t7, "\\n", <<" ">>)
             t9 == ReplacePiece(t8, "\\t", <<" ">>)
             t10 == CollapseRuns(t9, " ", 1, 1)
         IN  Str(Strip(t10))

\* the first position from i on that holds no whitespace (\s of a regex)
RECURSIVE SkipSpace(_, _)
SkipSpace(s, i) == IF i <= Len(s) /\ s[i] \in Whitespace THEN SkipSpace(s, i + 1) ELSE i

\* the group of the fence pattern when it matches with its fence at i:
\* fence, an optional json, whitespace, the shortest {...} that is followed by
\* whitespace and a fence
FencedGroup(s, i) ==
    LET a == IF i + 1 <= Len(s) /\ s[i + 1] \in {"json", "JSON"} THEN i + 2 ELSE i + 1
        b == SkipSpace(s, a)
        Closes(e) == s[e] = "}" /\ SkipSpace(s, e + 1) <= Len(s)
                     /\ s[SkipSpace(s, e + 1)] = Fence
    IN  IF s[i] = Fence /\ b <= Len(s) /\ s[b] = "{" /\ \E e \in (b + 1)..Len(s) : Closes(e)
        THEN [ok |-> TRUE,
              group |-> SubSeq(s, b, CHOOSE e \in (b + 1)..Len(s) :
                                         Closes(e) /\ \A f \in (b + 1)..(e - 1) : ~Closes(f))]
        ELSE [ok |-> FALSE]

\* extract_json_from_llm_output
ExtractJsonFromLlmOutput(text) ==
    LET start == Find(text, "{")
        end == RFind(text, "}")
    IN  IF \E i \in 1..Len(text) : FencedGroup(text, i).ok
        THEN FencedGroup(text, CHOOSE i \in 1..Len(text) :
                                   /\ FencedGroup(text, i).ok
                                   /\ \A j \in 1..(i - 1) : ~FencedGroup(text, j).ok).group
        ELSE IF start # 0 /\ end # 0 THEN SubSeq(text, start, end)
        ELSE Strip(text)

CoreInfoKeys == <<"skills", "job_title", "headline", "summary">>

\* the dict of the except branch
DefaultCoreInfo ==
    Dict(Key("skills") :> List(<< >>) @@ Key("job_title") :> Str(<< >>)
         @@ Key("headline") :> Str(<< >>) @@ Key("summary") :> Str(<< >>))

\* key in data, for the parsed values that support it
InData(key, data) ==
    CASE IsDict(data) -> Has(data, Key(key))
      [] IsList(data) -> \E i \in 1..Len(data.list) : data.list[i] = Str(<<key>>)
      [] IsStr(data) -> Contains(<<key>>, data.str)
      [] OTHER -> FALSE

\* extract_resume_core_info, given what call_llm_api returned: a dict gets the
\* keys it lacks; every exception (of re.search on None, of json.loads, of
\* the membership test, of the item assignment) gives the default dict
ExtractResumeCoreInfo(response) ==
    IF ~IsStr(response) THEN DefaultCoreInfo
    ELSE LET data == Loads(ExtractJsonFromLlmOutput(response.str))
         IN  IF IsDict(data)
             THEN Dict([k \in DOMAIN data.dict \cup {Key(CoreInfoKeys[i]) : i \in 1..4} |->
                           IF k \in DOMAIN data.dict THEN data.dict[k] ELSE Str(<< >>)])
             ELSE IF (IsList(data) \/ IsStr(data)) /\ \A i \in 1..4 : InData(CoreInfoKeys[i], data)
             THEN data
             ELSE DefaultCoreInfo

\* enhance_resume(resume_text, target_job_role), given what its two calls of
\* call_llm_api return: the value returned or the exception raised, and the
\* calls made
EnhanceResume(core_reply, enhance_reply) ==
    LET core_info == ExtractResumeCoreInfo(core_reply)
    IN  IF ~IsDict(core_info)
        THEN [value |-> Exc("AttributeError"), calls |-> <<"call_llm_api">>]
        ELSE IF ~Joinable(Get(core_info, Key("skills")))
        THEN [value |-> Exc("TypeError"), calls |-> <<"call_llm_api">>]
        ELSE [value |-> enhance_reply, calls |-> <<"call_llm_api", "call_llm_api">>]

\* recommend_career_paths(resume_text): the text is joined as the skills
RecommendCareerPaths(reply) ==
    [value |-> CleanLlmOutput(reply), calls |-> <<"call_llm_api">>]

ServiceUnavailable ==
    Str(<<WarningSign, " Service temporarily unavailable. Please try again later.">>)

ServiceUnavailableWith(local_response) ==
    Str(<<WarningSign, " Service temporarily unavailable. Please try again later.",
          " (Local fallback failed: ">> \o local_response.str \o <<")">>)

\* what call_local_llm_api does: it returns a text or a failure string, or raises
LocalOutcomes ==
    {Str(<<"Local", " ", "answer">>), Str(<<CrossMark, " Local LLM error">>),
     Exc("ConnectionError")}

\* the context argument the wrappers pass to handle_llm_fallback
FallbackContext(op) ==
    IF op = "clean_enhance_resume" THEN "resume enhancement" ELSE "career recommendations"

\* handle_llm_fallback, given what call_local_llm_api does; its context
\* argument goes to the log only
HandleLlmFallback(local) ==
    IF IsExc(local) \/ ~IsStr(local) THEN ServiceUnavailable
    ELSE IF ~StartsWith(local, CrossMark) THEN local
    ELSE ServiceUnavailableWith(local)

\* a wrapper of crew/tools.py: the fallback runs in the except branch only
Wrapped(primary, clean, local) ==
    IF IsExc(primary.value)
    THEN [value |-> HandleLlmFallback(local), primary |-> primary.value,
          calls |-> Append(primary.calls, "call_local_llm_api")]
    ELSE [value |-> IF clean THEN CleanLlmOutput(primary.value) ELSE primary.value,
          primary |-> primary.value, calls |-> primary.calls]

\* what call_llm_api returns for the prompt of extract_resume_core_info
CoreInfoReplies ==
    {Str(<<"{", "\"", "skills", "\"", ":", " ", "[", "\"", "python", "\"", "]", ",", " ",
           "\"", "job_title", "\"", ":", " ", "\"", "Developer", "\"", "}">>),
     Str(<<Fence, "json", "\n", "{", "\"", "skills", "\"", ":", "[", "]", "}", "\n", Fence>>),
     Str(<<"{", "\"", "skills", "\"", ":", " ", "null", "}">>),
     Str(<<"[", "\"", "skills", "\"", ",", "\"", "job_title", "\"", ",", "\"", "headline",
           "\"", ",", "\"", "summary", "\"", "]">>),
     Str(<<"Sorry">>),
     ProviderError([provider |-> "openrouter"], [status |-> 500]),
     MaxRetriesExceeded([max_retries |-> 3]),
     None}

\* what call_llm_api returns for the prompts that ask for a text
TextReplies ==
    {Str(<<"##", " ", "Experience", "\\n", "\t", "+", "built", " ", " ", "things", "\n", "\n",
           "\n", "\n", "end", " ">>),
     Str(<<"\n", " ">>),
     Str(<< >>),
     ProviderError([provider |-> "openrouter"], [status |-> 500]),
     DailyLimitReached,
     None}

\* clean_enhance_resume(resume_text, target_job_role)
CleanEnhanceResume(core_reply, enhance_reply, local) ==
    /\ fb_in' = [op |-> "clean_enhance_resume", replies |-> <<core_reply, enhance_reply>>,
                 local |-> local]
    /\ fb_out' = Wrapped(EnhanceResume(core_reply, enhance_reply), TRUE, local)

\* clean_recommend_career_paths(resume_text): recommend_career_paths cleans its
\* result and the wrapper cleans it again
CleanRecommendCareerPaths(reply, local) ==
    /\ fb_in' = [op |-> "clean_recommend_career_paths", replies |-> <<reply>>, local |-> local]
    /\ fb_out' = Wrapped(RecommendCareerPaths(reply), TRUE, local)

FallbackInit ==
    /\ fb_in = NoCall
    /\ fb_out = NoRet

(***************************************************************************)
(*                 match_similar_resumes (pipeline.py)                     *)
(***************************************************************************)
LinkIcon == "U+1F517"

PageIcon == "U+1F4C4"

MemoIcon == "U+1F4DD"

\* file names are sequences of pieces; an underscore or a space is a piece
\* of its own
Filenames == { <<"u1", "_", "cv.pdf">>, <<"my", " ", "cv.pdf">> }

\* the resumes stored: (text, meta) pairs as embed_and_store adds them
ResumeItems == { << <<"a">>, [filename |-> f] >> : f \in Filenames }
                   \cup { << <<"b">>, [filename |-> <<"u1", "_", "cv.pdf">>] >> }

RECURSIVE ItemSeqs(_)
ItemSeqs(n) ==
    IF n = 0 THEN { << >> }
    ELSE ItemSeqs(n - 1) \cup {Append(q, x) : q \in {r \in ItemSeqs(n - 1) : Len(r) = n - 1},
                                              x \in ResumeItems}

\* the resume corpus on disk when the function is called
ResumeCorpora == ItemSeqs(MaxItems)

\* what call_llm_api does for the matching prompt
MatchReplies ==
    {Str(<<"1.", " ", "match", "\\n">>),
     Str(<<" ", CrossMark, " late marker">>),
     Str(<< >>),
     ProviderError([provider |-> "openrouter"], [status |-> 500]),
     DailyLimitReached,
     None,
     Exc("ConnectionError")}

\* urllib.parse.quote for these pieces: a space is escaped
Quote(filename) == ReplacePiece(filename, " ", <<"%20">>)

\* filename.split("_", 1)[-1]
CleanName(filename) ==
    IF Find(filename, "_") = 0 THEN filename
    ELSE SubSeq(filename, Find(filename, "_") + 1, Len(filename))

NoSimilarResumes == Str(<<MemoIcon, " No similar resumes found in the database.">>)

\* the lines of the basic list for the matches from position i on
RECURSIVE LinkLines(_, _)
LinkLines(matches, i) ==
    IF i > Len(matches) THEN << >>
    ELSE Decimal(i) \o <<". ", "[", PageIcon, " ">> \o CleanName(matches[i].meta.filename)
             \o <<"](", "http://192.168.1.10:8000", "/static/resumes/">>
             \o Quote(matches[i].meta.filename) \o <<")", "\n">>
             \o LinkLines(matches, i + 1)

\* the except branch of match_similar_resumes (lines 142-155)
BasicLinks(filtered) ==
    IF filtered = << >> THEN NoSimilarResumes
    ELSE Str(Strip(<<LinkIcon, " **Top Resume Matches:**", "\n", "\n">>
                       \o LinkLines(filtered, 1)))

\* lines 109-110: the matches of other files, the first top_k of them
Filtered(matches, filename, top_k) ==
    Prefix(SelectSeq(matches, LAMBDA m : m.meta.filename # filename), top_k)

\* lines 111-155 without the test for the failure marker
MatchBodyReturnsFailure(matches, filename, top_k, response) ==
    LET filtered == Filtered(matches, filename, top_k)
    IN  IF filtered = << >> THEN NoSimilarResumes
        ELSE IF IsExc(response) THEN BasicLinks(filtered)
        ELSE IF ~IsStr(response) THEN BasicLinks(filtered)
        ELSE IF response.str # << >> THEN CleanLlmOutput(response)
        ELSE BasicLinks(filtered)

\* lines 111-155, given what search returned and what call_llm_api does
MatchBody(matches, filename, top_k, response) ==
    LET filtered == Filtered(matches, filename, top_k)
    IN  IF filtered = << >> THEN NoSimilarResumes
        ELSE IF IsExc(response) THEN BasicLinks(filtered)
        ELSE IF ~IsStr(response) THEN BasicLinks(filtered)
        ELSE IF response.str # << >> /\ ~StartsWith(Str(Strip(response.str)), CrossMark)
        THEN CleanLlmOutput(response)
        ELSE BasicLinks(filtered)

\* match_similar_resumes(query_text, filename, top_k)
MatchSimilarResumes(corpus, query_text, filename, top_k, response) ==
    \E found \in SearchOutcomes([i \in 1..Len(corpus) |-> Encode(corpus[i][1])], corpus,
                                query_text, top_k + 1, NoFilter) :
        /\ match_in' = [corpus |-> corpus, query_text |-> query_text, filename |-> filename,
                        top_k |-> top_k, matches |-> found.results, response |-> response]
        /\ match_out' = MatchBody(found.results, filename, top_k, response)

MatchInit ==
    /\ match_in = NoCall
    /\ match_out = NoRet

(***************************************************************************)
(*                 extract_skills (tools/resume_parser.py)                 *)
(***************************************************************************)
\* the elements of a sequence
Range(s) == {s[i] : i \in 1..Len(s)}

\* str.split(sep), for a one-piece sep
RECURSIVE Split(_, _)
Split(s, sep) ==
    IF \E i \in 1..Len(s) : s[i] = sep
    THEN LET i == CHOOSE k \in 1..Len(s) : s[k] = sep /\ \A j \in 1..(k - 1) : s[j] # sep
         IN  <<SubSeq(s, 1, i - 1)>> \o Split(SubSeq(s, i + 1, Len(s)), sep)
    ELSE <<s>>

\* the words that open and that close the skills section
SectionStart == {<<"skills">>, <<"technologies">>, <<"tools">>}
SectionEnd ==
    {<<"experience">>, <<"employment">>, <<"work", " ", "history">>, <<"education">>,
     <<"projects">>}

\* line.split(":", 1)[-1]
AfterColon(line) ==
    LET i == CHOOSE k \in 1..Len(line) : line[k] = ":" /\ \A j \in 1..(k - 1) : line[j] # ":"
    IN  SubSeq(line, i + 1, Len(line))

\* skills_text after the loop over the lines
RECURSIVE SkillsText(_, _)
SkillsText(lines, in_skills_section) ==
    IF lines = << >> THEN << >>
    ELSE LET line == Head(lines)
         IN  IF \E keyword \in SectionStart : Contains(keyword, Lower(line))
             THEN (IF Contains(<<":">>, line) THEN AfterColon(line)
                   ELSE <<" ">> \o Strip(line))
                      \o SkillsText(Tail(lines), TRUE)
             ELSE IF in_skills_section
                     /\ \E keyword \in SectionEnd : Contains(keyword, Lower(line))
             THEN SkillsText(Tail(lines), FALSE)
             ELSE IF in_skills_section
             THEN <<" ">> \o Strip(line) \o SkillsText(Tail(lines), TRUE)
             ELSE SkillsText(Tail(lines), FALSE)

\* skill_keywords
SkillKeywords ==
    {<<"python">>, <<"java">>, <<"c++">>, <<"c#">>, <<"javascript">>, <<"typescript">>,
     <<"html">>, <<"css">>, <<"sql">>, <<"nosql">>, <<"machine", " ", "learning">>,
     <<"deep", " ", "learning">>, <<"data", " ", "science">>,
     <<"natural", " ", "language", " ", "processing">>, <<"nlp">>,
     <<"computer", " ", "vision">>, <<"cv">>, <<"data", " ", "analysis">>,
     <<"data", " ", "visualization">>, <<"statistics">>, <<"cloud", " ", "computing">>,
     <<"aws">>, <<"azure">>, <<"google", " ", "cloud">>, <<"gcp">>, <<"docker">>,
     <<"kubernetes">>, <<"git">>, <<"linux">>, <<"bash">>, <<"shell">>, <<"react">>,
     <<"angular">>, <<"vue.js">>, <<"node.js">>, <<"express.js">>, <<"django">>,
     <<"flask">>, <<"fastapi">>, <<"spring">>, <<"langchain">>, <<"langgraph">>,
     <<"pandas">>, <<"numpy">>, <<"scikit-learn">>, <<"matplotlib">>, <<"seaborn">>,
     <<"tensorflow">>, <<"pytorch">>, <<"keras">>, <<"agile">>, <<"scrum">>, <<"jira">>}

\* fallback 2: the keywords found in the text
KeywordSkills(text) == {skill \in SkillKeywords : Contains(skill, Lower(text))}

\* fallback 1, then fallback 2.  spacy is what nlp() gave for skills_text: the
\* noun chunks and proper nouns, each a character sequence, or an exception
FallbackSkills(text, spacy) ==
    LET skills_text == SkillsText(Split(text, "\\n"), FALSE)
    IN  IF Strip(skills_text) # << >> /\ ~IsExc(spacy) /\ spacy.chunks # << >>
        THEN {Lower(Strip(skill)) : skill \in {c \in Range(spacy.chunks) : Len(Strip(c)) > 1}}
        ELSE KeywordSkills(text)

\* extract_skills(text): the set of the returned list's elements.  response is
\* what call_llm_api returned or raised
ExtractSkills(text, response, spacy) ==
    IF IsStr(response)
       /\ {Strip(skill) : skill \in Range(Split(response.str, ","))} \ {<< >>} # {}
    THEN {Strip(skill) : skill \in Range(Split(response.str, ","))} \ {<< >>}
    ELSE FallbackSkills(text, spacy)

\* resume texts: with a skills section closed by the next heading, with real
\* line ends only, without a skills section, without any skill
ResumeTexts ==
    {<<"skills", ":", " ", "rust", "\\n", "docker", "\\n", "education", "\\n", "sql">>,
     <<"tools", " ", "git", "\n", "experience", " ", "python">>,
     <<"i", " ", "know", " ", "python">>,
     <<"none">>}

\* what call_llm_api does for the skills prompt
SkillReplies ==
    {Str(<<"python", ",", " ", "sql", ",", " ", ",", "python">>),
     Str(<<" ", ",", "\n">>),
     Str(<< >>),
     ProviderError([provider |-> "openrouter"], [status |-> 500]),
     MaxRetriesExceeded([max_retries |-> 3]),
     Str(<<CrossMark, " Request failed after 3 attempts: ", "timeout", ",", " ", "retry">>),
     None,
     Exc("ConnectionError")}

\* what nlp(skills_text) yields
SpacyOutcomes ==
    {[chunks |-> << >>],
     [chunks |-> <<<<"R", "u", "s", "t">>, <<"c">>, <<" ", "g", "i", "t">>>>],
     [chunks |-> <<<<"c">>>>],
     Exc("OSError")}

\* one call of extract_skills
ExtractSkillsCall(text, response, spacy) ==
    /\ skills_in' = [text |-> text, response |-> response, spacy |-> spacy]
    /\ skills_out' = [skills |-> ExtractSkills(text, response, spacy)]

SkillsInit ==
    /\ skills_in = NoCall
    /\ skills_out = NoRet

RecInit ==
    /\ rec_in = NoCall
    /\ rec_out = NoRet

LegacyInit ==
    /\ legacy_index_file = NoFile
    /\ legacy_corpus_file = NoFile

(***************************************************************************)
(*              fetch_recommended_courses (tools/pipeline.py)              *)
(***************************************************************************)
BookIcon == "U+1F4DA"
TvIcon == "U+1F4FA"
TargetIcon == "U+1F3AF"

\* what fetch_intelligent_courses returns without a course list
NoRelevantCourses == Str(<<BookIcon, " ", "No relevant courses found", " for your profile.">>)
NoCoursesFound ==
    Str(<<BookIcon, " ", "No courses found", ". Please try a different search term.">>)
IntelligentFailure(e) == Str(<<CrossMark, " Course recommendation failed: ", e>>)

\* what fetch_intelligent_courses does: a ranked list, nothing, blanks, its two
\* messages for no courses, its failure string, an exception
IntelligentOutcomes ==
    {Str(<<TargetIcon, " **Intelligent Course Recommendations for ", "role", "**">>),
     Str(<< >>),
     Str(<<" ", "\n">>),
     NoRelevantCourses,
     NoCoursesFound,
     IntelligentFailure("timeout"),
     Exc("RuntimeError")}

\* what fetch_coursera_courses_from_faiss returns
CourseraOutcomes ==
    {Str(<<BookIcon, " **Coursera Courses:**", "\n", "\n", "1. ", "course">>),
     Str(<<BookIcon, " ", "No Coursera courses found", " in database. Please add courses first.">>),
     Str(<<BookIcon, " No relevant Coursera courses found.">>),
     Str(<<CrossMark, " Coursera retrieval failed: ", "e">>)}

\* what fetch_youtube_courses returns
YoutubeOutcomes ==
    {Str(<<TvIcon, " **YouTube Courses:**", "\n", "\n", "1. ", "video">>),
     Str(<<TvIcon, " ", "No YouTube videos found", ".">>),
     Str(<<CrossMark, " YouTube API key not configured.">>),
     Str(<<CrossMark, " YouTube API failed.">>)}

\* the except branch of line 212: the basic fetch
BasicCourses(job_title, coursera_output, youtube_output) ==
    IF Contains(<<"No Coursera courses found">>, coursera_output.str)
       /\ Contains(<<"No YouTube videos found">>, youtube_output.str)
    THEN Str(<<BookIcon, " No courses found for your profile. Please try again later.">>)
    ELSE Str(<<TargetIcon, " **Recommended Job Role**: ", job_title, "\n", "\n">>
             \o coursera_output.str \o <<"\n", "\n">> \o youtube_output.str
             \o <<"\n", "\n", "*Note: Using basic course recommendations*">>)

\* what fetch_recommended_courses returns, and whether the basic fetch ran
RecommendedCourses(job_title, intelligent_output, coursera_output, youtube_output) ==
    IF IsStr(intelligent_output)
       /\ Strip(intelligent_output.str) # << >>
       /\ ~Contains(<<"No relevant courses found">>, intelligent_output.str)
    THEN [value |-> intelligent_output, fallback |-> FALSE]
    ELSE [value |-> BasicCourses(job_title, coursera_output, youtube_output),
          fallback |-> TRUE]

\* one call of fetch_recommended_courses(skills, job_title, resume_text)
FetchRecommendedCourses(job_title, intelligent_output, coursera_output, youtube_output) ==
    /\ rec_in' = [job_title |-> job_title, intelligent |-> intelligent_output,
                  coursera |-> coursera_output, youtube |-> youtube_output]
    /\ rec_out' = RecommendedCourses(job_title, intelligent_output, coursera_output,
                                     youtube_output)

StoreInit ==
    /\ indices = [h \in Handlers |-> EmptyDict]
    /\ corpora = [h \in Handlers |-> EmptyDict]
    /\ loaded_types = [h \in Handlers |-> {}]
    /\ locks = [h \in Handlers |-> {}]
    /\ index_file = EmptyDict
    /\ corpus_file = EmptyDict
    /\ last = NoCall

Init ==
    /\ StoreInit /\ ConcInit /\ LlmInit /\ LlmConcInit /\ JsonInit /\ RankInit
    /\ FallbackInit /\ MatchInit /\ SkillsInit /\ RecInit /\ LegacyInit

\* one caller working through one handler at a time
StoreNext ==
    \E T \in Types :
        \/ \E in \in AddInputs :
               Add("h1", in[1], in[2], T) /\ UNCHANGED <<concVars, llmConcVars, llmVars, jsonVars, rankVars, fbVars, matchVars, otherVars>>
        \/ GetCorpus("h1", T) /\ UNCHANGED <<concVars, llmConcVars, llmVars, jsonVars, rankVars, fbVars, matchVars, otherVars>>
        \/ Clear("h1", T) /\ UNCHANGED <<concVars, llmConcVars, llmVars, jsonVars, rankVars, fbVars, matchVars, otherVars>>
        \/ NewHandler("h1") /\ UNCHANGED <<concVars, llmConcVars, llmVars, jsonVars, rankVars, fbVars, matchVars, otherVars>>
        \/ \E in \in SearchInputs :
               Search("h1", in[1], T, in[2], in[3])
               /\ UNCHANGED <<concVars, llmConcVars, llmVars, jsonVars, rankVars, fbVars, matchVars, otherVars>>

SpecStore == Init /\ [][StoreNext]_vars

\* two threads calling add, clear and save of one handler on one data type
StoreConcNext ==
    \E t \in Threads :
        \/ \E c \in ThreadCalls(t) :
               Begin(t, c) /\ UNCHANGED <<llmVars, llmConcVars, jsonVars, rankVars, fbVars, matchVars, otherVars>>
        \/ ElCheck(t) /\ UNCHANGED <<llmVars, llmConcVars, jsonVars, rankVars, fbVars, matchVars, otherVars>>
        \/ ElLockCheck(t) /\ UNCHANGED <<llmVars, llmConcVars, jsonVars, rankVars, fbVars, matchVars, otherVars>>
        \/ ElLockCreate(t) /\ UNCHANGED <<llmVars, llmConcVars, jsonVars, rankVars, fbVars, matchVars, otherVars>>
        \/ ElWith(t) /\ UNCHANGED <<llmVars, llmConcVars, jsonVars, rankVars, fbVars, matchVars, otherVars>>
        \/ ElAcquire(t) /\ UNCHANGED <<llmVars, llmConcVars, jsonVars, rankVars, fbVars, matchVars, otherVars>>
        \/ ElRecheck(t) /\ UNCHANGED <<llmVars, llmConcVars, jsonVars, rankVars, fbVars, matchVars, otherVars>>
        \/ ElIndex(t) /\ UNCHANGED <<llmVars, llmConcVars, jsonVars, rankVars, fbVars, matchVars, otherVars>>
        \/ ElCorpus(t) /\ UNCHANGED <<llmVars, llmConcVars, jsonVars, rankVars, fbVars, matchVars, otherVars>>
        \/ ElMark(t) /\ UNCHANGED <<llmVars, llmConcVars, jsonVars, rankVars, fbVars, matchVars, otherVars>>
        \/ AddStrip(t) /\ UNCHANGED <<llmVars, llmConcVars, jsonVars, rankVars, fbVars, matchVars, otherVars>>
        \/ AddIndex(t) /\ UNCHANGED <<llmVars, llmConcVars, jsonVars, rankVars, fbVars, matchVars, otherVars>>
        \/ AddCorpus(t) /\ UNCHANGED <<llmVars, llmConcVars, jsonVars, rankVars, fbVars, matchVars, otherVars>>
        \/ ClearIndex(t) /\ UNCHANGED <<llmVars, llmConcVars, jsonVars, rankVars, fbVars, matchVars, otherVars>>
        \/ ClearCorpus(t) /\ UNCHANGED <<llmVars, llmConcVars, jsonVars, rankVars, fbVars, matchVars, otherVars>>
        \/ SaveIndex(t) /\ UNCHANGED <<llmVars, llmConcVars, jsonVars, rankVars, fbVars, matchVars, otherVars>>
        \/ SaveCorpus(t) /\ UNCHANGED <<llmVars, llmConcVars, jsonVars, rankVars, fbVars, matchVars, otherVars>>

SpecStoreConc == Init /\ [][StoreConcNext]_vars

\* one caller of call_llm_api at a time
LlmNext ==
    \/ \E c \in CallInputs : Start(c) /\ UNCHANGED <<storeVars, concVars, llmConcVars, jsonVars, rankVars, fbVars, matchVars, otherVars>>
    \/ /\ pc = "request"
       /\ \E resp \in Responses : Attempt(resp) /\ UNCHANGED <<storeVars, concVars, llmConcVars, jsonVars, rankVars, fbVars, matchVars, otherVars>>
    \/ Continue /\ UNCHANGED <<storeVars, concVars, llmConcVars, jsonVars, rankVars, fbVars, matchVars, otherVars>>

SpecLLM == Init /\ [][LlmNext]_vars

\* requests.post returns or raises
LlmAttempt ==
    /\ pc = "request"
    /\ \E resp \in Responses : Attempt(resp)
    /\ UNCHANGED <<storeVars, concVars, llmConcVars, jsonVars, rankVars, fbVars, matchVars,
                   otherVars>>

\* time.sleep returns
LlmContinue ==
    /\ Continue
    /\ UNCHANGED <<storeVars, concVars, llmConcVars, jsonVars, rankVars, fbVars, matchVars,
                   otherVars>>

\* calls where every requests.post ends, with a response or with
\* an exception, and every time.sleep ends
\* calls with one prompt
LlmFairNext ==
    \/ \E c \in {in \in CallInputs : in.user_prompt = <<"p1">>} :
           Start(c)
           /\ UNCHANGED <<storeVars, concVars, llmConcVars, jsonVars, rankVars, fbVars,
                          matchVars, otherVars>>
    \/ LlmAttempt
    \/ LlmContinue

SpecLLMFair == Init /\ [][LlmFairNext]_vars /\ WF_vars(LlmAttempt) /\ WF_vars(LlmContinue)

\* two threads calling call_llm_api
LlmConcNext ==
    \E t \in Threads :
        \/ \E c \in ConcCallInputs :
               CallerStart(t, c)
               /\ UNCHANGED <<storeVars, concVars, jsonVars, rankVars, fbVars, matchVars, otherVars>>
        \/ /\ callers[t].pc = "request"
           /\ \E resp \in ConcResponses :
                  CallerAttempt(t, resp)
                  /\ UNCHANGED <<storeVars, concVars, jsonVars, rankVars, fbVars, matchVars, otherVars>>
        \/ CallerContinue(t) /\ UNCHANGED <<storeVars, concVars, jsonVars, rankVars, fbVars, matchVars, otherVars>>

SpecLLMConc == Init /\ [][LlmConcNext]_vars

\* one caller of call_llm_api_json at a time
JsonNext ==
    \/ \E c \in JsonCallInputs : CallLlmApiJson(c) /\ UNCHANGED <<storeVars, concVars, llmConcVars, rankVars, fbVars, matchVars, otherVars>>
    \/ /\ pc = "request"
       /\ \E resp \in JsonResponses : Attempt(resp) /\ UNCHANGED <<storeVars, concVars, llmConcVars, jsonVars, rankVars, fbVars, matchVars, otherVars>>
    \/ Continue /\ UNCHANGED <<storeVars, concVars, llmConcVars, jsonVars, rankVars, fbVars, matchVars, otherVars>>
    \/ JsonReturn /\ UNCHANGED <<storeVars, concVars, llmConcVars, rankVars, fbVars, matchVars, otherVars>>

SpecJson == Init /\ [][JsonNext]_vars

\* one call of the ranker or of the analyzer
RankNext ==
    \/ /\ RankIdle
       /\ \E n \in 0..MaxCourses : \E items \in [1..n -> RankItems] :
              \E user_skills \in UserSkills : \E max_results \in 0..MaxResults :
                  RankCall(items, user_skills, max_results)
                  /\ UNCHANGED <<storeVars, concVars, llmConcVars, llmVars, jsonVars, fbVars, matchVars, otherVars>>
    \/ /\ RankIdle
       /\ \E course_data \in {CourseAt(1), NonDictCourse, None} :
              \E user_skills \in UserSkills : \E outcome \in JsonOutcomes :
                  AnalyzeCall(course_data, user_skills, outcome)
                  /\ UNCHANGED <<storeVars, concVars, llmConcVars, llmVars, jsonVars, fbVars, matchVars, otherVars>>

SpecRank == Init /\ [][RankNext]_vars

\* one call of a wrapped operation
FallbackNext ==
    \/ /\ fb_in = NoCall
       /\ \E core_reply \in CoreInfoReplies : \E enhance_reply \in TextReplies :
              \E local \in LocalOutcomes :
                  CleanEnhanceResume(core_reply, enhance_reply, local)
                  /\ UNCHANGED <<storeVars, concVars, llmConcVars, llmVars, jsonVars, rankVars, matchVars, otherVars>>
    \/ /\ fb_in = NoCall
       /\ \E reply \in TextReplies : \E local \in LocalOutcomes :
              CleanRecommendCareerPaths(reply, local)
              /\ UNCHANGED <<storeVars, concVars, llmConcVars, llmVars, jsonVars, rankVars, matchVars, otherVars>>

SpecFallback == Init /\ [][FallbackNext]_vars

\* one call of match_similar_resumes
MatchNext ==
    /\ match_in = NoCall
    /\ \E corpus \in ResumeCorpora : \E filename \in Filenames : \E top_k \in 1..MaxItems :
           \E response \in MatchReplies :
               MatchSimilarResumes(corpus, <<"a">>, filename, top_k, response)
               /\ UNCHANGED <<storeVars, concVars, llmVars, llmConcVars, jsonVars, rankVars,
                              fbVars, otherVars>>

SpecMatch == Init /\ [][MatchNext]_vars

\* one call of extract_skills
SkillsNext ==
    /\ skills_in = NoCall
    /\ \E text \in ResumeTexts : \E response \in SkillReplies : \E spacy \in SpacyOutcomes :
           ExtractSkillsCall(text, response, spacy)
           /\ UNCHANGED <<storeVars, concVars, llmVars, llmConcVars, jsonVars, rankVars,
                          fbVars, matchVars, recVars, legacyVars>>

SpecSkills == Init /\ [][SkillsNext]_vars

\* one caller migrating the legacy files into the resume store
MigrateNext ==
    \/ \E files \in LegacyStates :
           LegacyWritten(files)
           /\ UNCHANGED <<concVars, llmVars, llmConcVars, jsonVars, rankVars, fbVars,
                          matchVars, skillVars, recVars>>
    \/ \E fault \in MigrationFaults :
           MigrateLegacyData("h1", "resume", fault)
           /\ UNCHANGED <<concVars, llmVars, llmConcVars, jsonVars, rankVars, fbVars,
                          matchVars, skillVars, recVars>>
    \/ /\ last.op # "add"
       /\ Add("h1", <<"a">>, [filename |-> "r1.pdf"], "resume")
       /\ UNCHANGED <<concVars, llmVars, llmConcVars, jsonVars, rankVars, fbVars,
                      matchVars, otherVars>>

SpecMigrate == Init /\ [][MigrateNext]_vars

\* one call of fetch_recommended_courses
RecNext ==
    /\ rec_in = NoCall
    /\ \E intelligent_output \in IntelligentOutcomes : \E coursera_output \in CourseraOutcomes :
           \E youtube_output \in YoutubeOutcomes :
               FetchRecommendedCourses("Data Engineer", intelligent_output, coursera_output,
                                       youtube_output)
               /\ UNCHANGED <<storeVars, concVars, llmVars, llmConcVars, jsonVars, rankVars,
                              fbVars, matchVars, skillVars, legacyVars>>

SpecRec == Init /\ [][RecNext]_vars

\* calls through two handlers over the same files, one call at a time
StoreMultiNext ==
    \E h \in Handlers :
        \/ \E in \in {x \in AddInputs : Strip(x[1]) # << >>} :
               Add(h, in[1], in[2], "resume")
               /\ UNCHANGED <<concVars, llmVars, llmConcVars, jsonVars, rankVars, fbVars,
                              matchVars, otherVars>>
        \/ GetCorpus(h, "resume")
           /\ UNCHANGED <<concVars, llmVars, llmConcVars, jsonVars, rankVars, fbVars,
                          matchVars, otherVars>>
        \/ NewHandler(h)
           /\ UNCHANGED <<concVars, llmVars, llmConcVars, jsonVars, rankVars, fbVars,
                          matchVars, otherVars>>

SpecStoreMulti == Init /\ [][StoreMultiNext]_vars

(***************************************************************************)
(* Claims about the store.                                                 *)
(***************************************************************************)
\* index and corpus have equal length and the vector at each position is the
\* embedding of the text at the same position
Aligned(index, corpus) ==
    /\ Len(index) = Len(corpus)
    /\ \A i \in 1..Len(corpus) : index[i] = Encode(corpus[i][1])

\* the pair handler h holds in memory for T
Held(h, T) == [index |-> indices[h][T], corpus |-> corpora[h][T]]

\* C1: after every add and clear call of one caller on one store, the index
\* and the corpus of the data type have equal length and matching order: a
\* successful add has extended both by one entry at the same position, a
\* rejected add has extended neither, and clear has emptied both.
C1_AddClearKeepAligned ==
    /\ \A h \in Handlers : \A T \in loaded_types[h] :
           Aligned(indices[h][T], corpora[h][T])
    /\ (last.op = "add" /\ last.ret = "Stored in FAISS.") =>
           Held(last.h, last.T) =
               [index |-> Append(last.pre.index, Encode(last.text)),
                corpus |-> Append(last.pre.corpus, <<last.text, last.meta>>)]
    /\ (last.op = "add" /\ last.ret = "Empty text, cannot embed.") =>
           Held(last.h, last.T) = last.pre
    /\ last.op = "clear" =>
           Held(last.h, last.T) = [index |-> << >>, corpus |-> << >>]

\* the part of C1 that does not depend on clear: lengths and order agree
StoreAligned ==
    \A h \in Handlers : \A T \in loaded_types[h] :
        Aligned(indices[h][T], corpora[h][T])

\* C2: clear(T) twice in a row leaves get_corpus(T) empty after the first call
\* and after the second, whether or not T was loaded and whether or not
\* non-empty files of T exist.
C2_ClearTwiceEmpty ==
    last.op = "clear" => View(last.h, last.T).corpus = << >>

\* the second of two clear calls in a row does empty the corpus
SecondClearEmpties ==
    (last.op = "clear" /\ last.again) => View(last.h, last.T).corpus = << >>

(***************************************************************************)
(* Claims about call_llm_api.                                              *)
(***************************************************************************)
\* the call in progress has returned
Returned == pc = "returned"

\* C4: every attempt that ends in a transport exception or in a non-2xx
\* response other than the hard-quota 429 is followed by a further attempt
\* after a backoff delay until max_retries attempts have been made; only then
\* is a failure string returned.
C4_FailuresRetriedToBound ==
    (Returned /\ result.via \in {"transport", "ratelimit", "status"}) =>
        /\ nreq = call.args.max_retries
        /\ Len(sleeps) = nreq - 1

\* what the loop does do: transport exceptions and generic 429 answers are
\* retried up to the bound
TransientRetriedToBound ==
    (Returned /\ result.via \in {"transport", "ratelimit"}) =>
        /\ nreq = call.args.max_retries
        /\ Len(sleeps) = nreq - 1

\* C5 as claimed: the second of two calls with the same cache key issues no
\* network request, whatever the outcome of the first call was.
C5_RepeatedCallNoRequest == call.repeat => nreq = 0

\* C5 as amended: a call whose cache key has been answered by a 200 response
\* before issues no network request.
C5_NoRequestAfter200 == call.after200 => nreq = 0

C5_Witness == call.repeat /\ call.after200 /\ Returned /\ nreq = 0

\* the 429 answers whose error message contains "rate limit" in some casing
DailyLimitAnswers ==
    {[status |-> 429,
      body |-> [json |-> TRUE, data |-> Dict(Key("error") :> Dict(Key("message") :> Str(m)))]]
        : m \in { <<"R", "a", "t", "e", " ", "l", "i", "m", "i", "t", " ", "h", "i", "t">>,
                  <<"R", "A", "T", "E", " ", "L", "I", "M", "I", "T">> }}

\* C6: a 429 answer whose error message contains "rate limit" (in any casing)
\* makes the call return the daily-limit guidance from that same attempt, with
\* no sleep and no request after it; on the first attempt exactly one request
\* is issued in total.
C6_DailyLimitReturnsAtOnce ==
    lastResp \in DailyLimitAnswers =>
        /\ Returned
        /\ result.value = DailyLimitReached
        /\ nreq = attempt + 1
        /\ Len(sleeps) = attempt
        /\ attempt = 0 => nreq = 1

C6_Witness ==
    /\ lastResp \in DailyLimitAnswers
    /\ Returned
    /\ nreq = 1
    /\ call.args.max_retries = 3

\* the call returned a model completion, fresh or from the cache
ReturnedCompletion ==
    \/ result.via = "completion"
    \/ /\ result.via = "cached"
       /\ CacheKey(call.args) \in DOMAIN answered
       /\ answered[CacheKey(call.args)] = "completion"

IsErrorRecord(v) == IsDict(v) /\ Has(v, Key("error")) /\ Has(v, Key("raw_response"))

\* what call_llm_api handed to call_llm_api_json is a failure string
SentinelReturned ==
    /\ IsStr(result.value)
    /\ StartsWith(result.value, CrossMark) \/ StartsWith(result.value, WarningSign)

\* json.loads of the extracted text of a reply that is no failure string
LoadedReply == Loads(JsonStr(StripReply(result.value.str)))

\* C10: call_llm_api_json never raises and returns a parsed JSON object or
\* array or an ErrorRecord with an error field and the raw response; a failure
\* string of call_llm_api, a JSON parse failure and a parsed value that is
\* neither an object nor an array each yield an ErrorRecord.
C10_JsonNeverRaises ==
    json_pc = "returned" =>
        /\ ~IsExc(json_out)
        /\ IsDict(json_out) \/ IsList(json_out)
        /\ SentinelReturned => IsErrorRecord(json_out)
        /\ (IsStr(result.value) /\ ~SentinelReturned) =>
               IF IsDict(LoadedReply) \/ IsList(LoadedReply)
               THEN json_out = LoadedReply
               ELSE IsErrorRecord(json_out)

\* what does hold: a reply that is a string never makes call_llm_api_json raise
JsonStringReplyNeverRaises ==
    (json_pc = "returned" /\ IsStr(result.value)) =>
        /\ ~IsExc(json_out)
        /\ IsDict(json_out) \/ IsList(json_out)

(***************************************************************************)
(* Claims about the course ranker.                                         *)
(***************************************************************************)
\* rank_and_filter_courses has returned
Ranked == rank_in # NoCall

\* the relevance scores of the returned courses, in order
RankedScores == [i \in 1..Len(rank_out.list) |-> ScoreOf(rank_out.list[i])]

\* C7: for every course list, user profile, max_results >= 0 and every outcome
\* of the analyses, the list rank_and_filter_courses returns holds no course
\* with a relevance score below 5, is at most max_results long and is sorted
\* by relevance score, highest first.
C7_RankedFilteredSorted ==
    Ranked =>
        /\ IsList(rank_out)
        /\ \A i \in 1..Len(RankedScores) :
               IsNum(RankedScores[i]) /\ RankedScores[i].num >= RelevanceThreshold
        /\ Len(RankedScores) <= rank_in.max_results
        /\ \A i \in 1..(Len(RankedScores) - 1) :
               RankedScores[i].num >= RankedScores[i + 1].num

\* what does hold of every returned list: the filter and the bound
RankedFilteredBounded ==
    Ranked =>
        /\ IsList(rank_out)
        /\ \A i \in 1..Len(RankedScores) :
               IsNum(RankedScores[i]) /\ RankedScores[i].num >= RelevanceThreshold
        /\ Len(RankedScores) <= rank_in.max_results

\* analyze_course_relevance has returned
Analyzed == analyze_in # NoCall

\* the fields of the records analyze_course_relevance builds itself
DefaultKeys ==
    {Key("relevance_score"), Key("skill_gaps_covered"), Key("learning_level"),
     Key("career_impact"), Key("recommendation"), Key("reasoning")}

DefaultShaped(v) == IsDict(v) /\ DOMAIN v.dict = DefaultKeys

\* the call failed while the prompt was built or inside the LLM client
AnalysisRaised ==
    /\ IsDict(analyze_in.course_data)
    /\ ~Joinable(analyze_in.user_skills) \/ IsExc(analyze_in.outcome)

IsSentinel(v) == IsStr(v) /\ (StartsWith(v, CrossMark) \/ StartsWith(v, WarningSign))

\* every call of call_llm_api on the primary path returned a failure string
\* and call_local_llm_api answers with a text
PrimaryFailsLocalSucceeds ==
    /\ \A i \in 1..Len(fb_in.replies) : IsSentinel(fb_in.replies[i])
    /\ IsStr(fb_in.local) /\ ~IsSentinel(fb_in.local) /\ fb_in.local.str # << >>

\* C3: when the primary path of a wrapped operation ends in an exception or in
\* a failure string of the LLM client, the local fallback is called before a
\* result is returned; so when every primary call fails and the fallback
\* succeeds, the operation returns a non-empty string with no failure marker.
C3_FallbackAfterPrimaryFailure ==
    fb_in # NoCall =>
        /\ (IsExc(fb_out.primary) \/ IsSentinel(fb_out.primary)) =>
               fb_out.calls[Len(fb_out.calls)] = "call_local_llm_api"
        /\ PrimaryFailsLocalSucceeds =>
               /\ IsStr(fb_out.value)
               /\ fb_out.value.str # << >>
               /\ ~IsSentinel(fb_out.value)

\* what does hold: an exception on the primary path is followed by the fallback
FallbackAfterException ==
    (fb_in # NoCall /\ IsExc(fb_out.primary)) =>
        /\ fb_out.calls[Len(fb_out.calls)] = "call_local_llm_api"
        /\ fb_out.value = HandleLlmFallback(fb_in.local)

(***************************************************************************)
(* Claims about the extraction of call_llm_api_json.                       *)
(***************************************************************************)
\* call_llm_api_json has returned and call_llm_api gave it a reply of the model
ReplyParsed == json_pc = "returned" /\ IsStr(result.value) /\ ~SentinelReturned

\* the trimmed reply
TrimmedReply == StripReply(result.value.str)

\* the positions of the trimmed reply that hold piece c
PositionsOf(c) == {i \in 1..Len(TrimmedReply) : TrimmedReply[i] = c}

Least(S) == CHOOSE x \in S : \A y \in S : x <= y

Greatest(S) == CHOOSE x \in S : \A y \in S : x >= y

\* the substring the rule names: from the earlier of the first "{" and the
\* first "[" to the last matching closer; the whole text without an opener
RuleSubstring ==
    LET openers == PositionsOf("{") \cup PositionsOf("[")
        start == Least(openers)
        closers == PositionsOf(IF TrimmedReply[start] = "{" THEN "}" ELSE "]")
    IN  IF openers = {} THEN TrimmedReply
        ELSE IF closers = {} THEN << >>
        ELSE SubSeq(TrimmedReply, start, Greatest(closers))

\* what call_llm_api_json returns when it parses the text s
ReturnedFor(s) ==
    LET v == Loads(s)
    IN  IF IsDict(v) \/ IsList(v) THEN json_out = v
        ELSE /\ IsErrorRecord(json_out)
             /\ Get(json_out, Key("error")) =
                    Str(<<IF IsExc(v) THEN "JSON parsing failed" ELSE "Invalid JSON type">>)

\* texts of one JSON object
ObjectTexts ==
    { <<"{", "}">>,
      <<"{", "\"", "k", "\"", ":", "1", "}">>,
      <<"{", "\"", "relevance_score", "\"", ":", "8", "}">> }

\* the ways the trimmed reply wraps an object text in text before and after it
Wrappings ==
    {w \in [obj : ObjectTexts, at : 1..Len(TrimmedReply)] :
        /\ w.at + Len(w.obj) - 1 <= Len(TrimmedReply)
        /\ SubSeq(TrimmedReply, w.at, w.at + Len(w.obj) - 1) = w.obj}

Before(w) == SubSeq(TrimmedReply, 1, w.at - 1)

After(w) == SubSeq(TrimmedReply, w.at + Len(w.obj), Len(TrimmedReply))

Holds(s, c) == \E i \in 1..Len(s) : s[i] = c

\* C11 as claimed: call_llm_api_json parses exactly the substring from the
\* earlier of the first "{" and the first "[" of the trimmed reply to the last
\* matching closer, the whole trimmed reply when it holds no opener; hence a
\* reply that wraps one JSON object in surrounding text or a json fence is
\* parsed to that object.
C11_ExtractsWrappedObject ==
    ReplyParsed =>
        /\ ReturnedFor(RuleSubstring)
        /\ \A w \in Wrappings : json_out = Loads(w.obj)

\* C11 as amended: the same substring is parsed; a reply that wraps one JSON
\* object is parsed to that object when the text before the object holds no
\* "{" and no "[" and the text after it holds no "}".
C11_ExtractsByFirstOpenerLastCloser ==
    ReplyParsed =>
        /\ ReturnedFor(RuleSubstring)
        /\ \A w \in Wrappings :
               (~Holds(Before(w), "{") /\ ~Holds(Before(w), "[") /\ ~Holds(After(w), "}"))
                   => json_out = Loads(w.obj)

C11_Witness ==
    /\ ReplyParsed
    /\ result.value.str = <<"Sure!", " ", Fence, "json", "\n", "{", "\"", "relevance_score",
                             "\"", ":", "8", "}", "\n", Fence>>
    /\ json_out = Dict(Key("relevance_score") :> Num(8))

(***************************************************************************)
(* Claims about the records of analyze_course_relevance.                   *)
(***************************************************************************)
\* analyze_course_relevance got as far as its call of call_llm_api_json, and
\* the call returned
ClientReturned ==
    /\ Analyzed
    /\ IsDict(analyze_in.course_data)
    /\ Joinable(analyze_in.user_skills)
    /\ ~IsExc(analyze_in.outcome)

\* the safe default record with the given reasoning
SafeDefault(reasoning) ==
    Dict(Key("relevance_score") :> Num(1)
         @@ Key("skill_gaps_covered") :> List(<< >>)
         @@ Key("learning_level") :> Str(<<"Unknown">>)
         @@ Key("career_impact") :> Str(<<"Moderate">>)
         @@ Key("recommendation") :> Str(<<"Consider">>)
         @@ Key("reasoning") :> Str(<<reasoning>>))

\* C12: whenever call_llm_api_json returns an ErrorRecord to
\* analyze_course_relevance, it returns exactly the safe default record: score
\* 1, no skill gaps, level Unknown, impact Moderate, recommendation Consider,
\* reasoning "Analysis failed or was unavailable.".
C12_ErrorRecordGivesSafeDefault ==
    (ClientReturned /\ IsErrorRecord(analyze_in.outcome)) =>
        analyze_out = SafeDefault("Analysis failed or was unavailable.")

C12_Witness ==
    /\ ClientReturned
    /\ IsErrorRecord(analyze_in.outcome)
    /\ Get(analyze_in.outcome, Key("error")) = Str(<<"LLM API call failed">>)
    /\ ScoreOf(analyze_out) = Num(1)

\* C13: whenever call_llm_api_json returns a JSON array: when the array is
\* non-empty and its first element is an object, analyze_course_relevance
\* returns that element unchanged; when the array is empty or its first
\* element is no object, it returns the default record with score 1 and
\* reasoning "Analysis returned an invalid format.".
C13_ArrayGivesFirstElement ==
    (ClientReturned /\ IsList(analyze_in.outcome)) =>
        LET array == analyze_in.outcome.list
        IN  IF array # << >> /\ IsDict(array[1])
            THEN analyze_out = array[1]
            ELSE analyze_out = SafeDefault("Analysis returned an invalid format.")

C13_Witness ==
    /\ ClientReturned
    /\ analyze_in.outcome = List(<<Dict(Key("relevance_score") :> Num(7))>>)
    /\ analyze_out = Dict(Key("relevance_score") :> Num(7))

(***************************************************************************)
(* The ranker against its reference result.                                *)
(***************************************************************************)
\* the courses of the call with their analyses, in the order of the input
RankedInput == AnalyzedCourses(rank_in.courses, rank_in.user_skills, "role", rank_in.outcomes, 1)

\* the positions of a in S ordered by descending score, ties by position
RECURSIVE ByScoreThenPosition(_, _)
ByScoreThenPosition(a, S) ==
    IF S = {} THEN << >>
    ELSE LET i == CHOOSE i \in S : \A j \in S :
                      \/ ScoreOf(a[i]).num > ScoreOf(a[j]).num
                      \/ ScoreOf(a[i]).num = ScoreOf(a[j]).num /\ i <= j
         IN  <<i>> \o ByScoreThenPosition(a, S \ {i})

\* the reference result: the items whose score is at least 5, by descending
\* score with ties in input order, the first max_results of them
Reference ==
    LET a == RankedInput
        kept == {i \in 1..Len(a) : IsNum(ScoreOf(a[i])) /\ ScoreOf(a[i]).num >= 5}
        order == ByScoreThenPosition(a, kept)
        n == IF rank_in.max_results < Len(order) THEN rank_in.max_results ELSE Len(order)
    IN  [k \in 1..n |-> a[order[k]]]

\* every score of the call is a number or nan
ScoresAreFloats ==
    \A i \in 1..Len(RankedInput) :
        IsNum(ScoreOf(RankedInput[i])) \/ IsNaN(ScoreOf(RankedInput[i]))

\* C14: the output of rank_and_filter_courses equals the reference result:
\* the items in input order with the score of their analysis (5 when it has
\* none), sorted by descending score with ties in input order, without the
\* items of score below 5, cut to max_results; it is the empty list, not an
\* error, when the input is empty or every item is dropped.
C14_RankEqualsReference ==
    (Ranked /\ ScoresAreFloats) => rank_out = List(Reference)

\* what does hold: the output is the reference result when no score is nan
RankEqualsReferenceOnNumbers ==
    (Ranked /\ \A i \in 1..Len(RankedInput) : IsNum(ScoreOf(RankedInput[i])))
        => rank_out = List(Reference)

(***************************************************************************)
(* Claims about add and search of the store.                               *)
(***************************************************************************)
\* the files of T as handler-independent state: what a new handler would load
Persisted(T) ==
    [index |-> IF T \in DOMAIN index_file THEN index_file[T] ELSE << >>,
     corpus |-> IF T \in DOMAIN corpus_file THEN corpus_file[T] ELSE << >>]

BlankAddReturned == last.op = "add" /\ Strip(last.text) = << >>

\* C15: add with a text that is blank after trimming returns the error
\* outcome and leaves the index of T, the corpus of T and the files of every
\* data type as they were.
C15_BlankAddChangesNothing ==
    BlankAddReturned =>
        /\ last.ret = "Empty text, cannot embed."
        /\ Held(last.h, last.T) = last.pre
        /\ index_file = last.files.index
        /\ corpus_file = last.files.corpus

C15_Witness ==
    /\ BlankAddReturned
    /\ last.text = <<" ">>
    /\ Len(last.pre.corpus) = 1
    /\ last.T \in DOMAIN corpus_file

SuccessfulAddReturned == last.op = "add" /\ last.ret = "Stored in FAISS."

\* the search that returned could report every item of the corpus
FullSearchReturned ==
    /\ last.op = "search"
    /\ last.meta.filter_fn = NoFilter
    /\ last.meta.top_k >= Len(last.pre.corpus)
    /\ last.meta.top_k > 0

\* C16: when a successful add returns, the files of T equal the index and the
\* corpus in memory and hold the new item as their last entry; a search on T
\* issued afterwards with top_k at least the size of the corpus, by the same
\* handler or by a handler constructed afterwards, returns the added item.
C16_AddIsWrittenThrough ==
    /\ SuccessfulAddReturned =>
           /\ Persisted(last.T) = Held(last.h, last.T)
           /\ Len(Persisted(last.T).corpus) > 0
           /\ Persisted(last.T).corpus[Len(Persisted(last.T).corpus)]
                  = <<last.text, last.meta>>
           /\ Persisted(last.T).index[Len(Persisted(last.T).index)]
                  = Encode(last.text)
    /\ (FullSearchReturned /\ last.added # NoCall /\ last.added.T = last.T) =>
           \E k \in 1..Len(last.ret.results) :
               <<last.ret.results[k].text, last.ret.results[k].meta>> = last.added.item

\* a new handler finds the item added through the handler before it
C16_Witness ==
    /\ FullSearchReturned
    /\ last.fresh
    /\ last.added = [T |-> last.T, item |-> << <<" ", "b">>, [filename |-> "r2.pdf"] >>]
    /\ Len(last.pre.corpus) = 2
    /\ last.ret.results[2].text = <<" ", "b">>

SearchReturned == last.op = "search"

\* the call before the search was clear of the same data type
JustCleared == last.cleared

\* C17: search on a data type whose corpus is empty, in particular on a data
\* type that has just been cleared, returns the empty list and raises nothing,
\* for every query and every top_k.
C17_SearchAfterClearEmpty ==
    (SearchReturned /\ (last.pre.corpus = << >> \/ JustCleared)) =>
        last.ret = [results |-> << >>]

\* what does hold: search on an empty corpus returns the empty list
SearchOnEmptyCorpusEmpty ==
    (SearchReturned /\ last.pre.corpus = << >>) => last.ret = [results |-> << >>]

(***************************************************************************)
(* Claims about concurrent callers of the store.                           *)
(***************************************************************************)
\* every call of every thread has returned
AllReturned == \A t \in Threads : threads[t].pc = "idle"

\* C18: under any interleaving of concurrent add, clear and save calls on one
\* data type of one handler, once all calls have returned the index and the
\* corpus of the data type have the same length and the vector at each
\* position is the embedding of the text at the same position of the corpus.
C18_ConcurrentAddsKeepAligned ==
    (AllReturned /\ SharedType \in loaded_types[SharedHandler]) =>
        Aligned(indices[SharedHandler][SharedType], corpora[SharedHandler][SharedType])

\* C19: when several threads access a data type of one handler for the first
\* time, one Lock is created for it and its index and corpus are constructed
\* by _ensure_loaded once.
C19_FirstLoadOnce ==
    /\ lock_state.made <= 1
    /\ lock_state.constructions <= 1

(***************************************************************************)
(* Claims about the cache of call_llm_api under concurrent callers.        *)
(***************************************************************************)
\* C20: an entry of llm_cache is never evicted and never changed after it is
\* first written: under any interleaving of concurrent calls, also of calls
\* with the same key that both miss the cache, the value under every key
\* stays the value of its first write.
C20_CacheEntryNeverChanges ==
    \A k \in DOMAIN first_write :
        /\ k \in DOMAIN llm_cache
        /\ llm_cache[k] = first_write[k]

\* what does hold: with one caller at a time no step removes or changes an
\* entry of llm_cache
OneCallerNeverChangesEntry ==
    [][\A k \in DOMAIN llm_cache :
          /\ k \in DOMAIN llm_cache'
          /\ llm_cache'[k] = llm_cache[k]]_vars

(***************************************************************************)
(* Claims about the wrappers when the fallback fails as well.              *)
(***************************************************************************)
\* the primary path failed and so did call_local_llm_api
BothFailed ==
    /\ fb_in # NoCall
    /\ IsExc(fb_out.primary) \/ IsSentinel(fb_out.primary)
    /\ IsExc(fb_in.local) \/ IsSentinel(fb_in.local)

\* the text names the wrapped operation
NamesOperation(v) == Contains(<<FallbackContext(fb_in.op)>>, v.str)

\* C21: when the primary path and the local fallback of a wrapped operation
\* both fail, the wrapper returns, without raising, a degraded-service message
\* that names the operation that failed.
C21_DegradedMessageNamesOperation ==
    BothFailed =>
        /\ IsStr(fb_out.value)
        /\ StartsWith(fb_out.value, WarningSign)
        /\ NamesOperation(fb_out.value)

\* what does hold: after an exception on the primary path and a failed
\* fallback the wrapper returns one of the two unavailable messages
UnavailableAfterBothFail ==
    (BothFailed /\ IsExc(fb_out.primary)) =>
        fb_out.value = IF IsExc(fb_in.local) THEN ServiceUnavailable
                       ELSE ServiceUnavailableWith(fb_in.local)

(***************************************************************************)
(* Claims about match_similar_resumes.                                     *)
(***************************************************************************)
\* the matches search returned that are not the query's own file
Remaining == SelectSeq(match_in.matches, LAMBDA m : m.meta.filename # match_in.filename)

\* the call of call_llm_api raised or returned a failure string
MatchLlmFailed == IsExc(match_in.response) \/ IsSentinel(match_in.response)

\* the link line of the match at position k of the list
LinkLine(k, m) ==
    Decimal(k) \o <<". ", "[", PageIcon, " ">> \o CleanName(m.meta.filename)
        \o <<"](", "http://192.168.1.10:8000", "/static/resumes/">>
        \o Quote(m.meta.filename) \o <<")">>

\* the basic list of the first n remaining matches, built from its last line
RECURSIVE ExpectedList(_)
ExpectedList(n) ==
    IF n = 0 THEN <<LinkIcon, " **Top Resume Matches:**", "\n">>
    ELSE ExpectedList(n - 1) \o <<"\n">> \o LinkLine(n, Remaining[n])

\* C22: whenever at least one match remains after removing the query's own
\* file and the LLM call raises or returns a failure string,
\* match_similar_resumes returns the basic list of links of exactly the
\* remaining matches in search order, at most top_k of them and never the
\* query's own file, and never the failure string.
C22_BasicLinksAfterLlmFailure ==
    (match_in # NoCall /\ Remaining # << >> /\ MatchLlmFailed) =>
        /\ match_out = Str(ExpectedList(IF match_in.top_k < Len(Remaining)
                                        THEN match_in.top_k ELSE Len(Remaining)))
        /\ match_out # match_in.response
        /\ ~StartsWith(match_out, CrossMark)
        /\ ~Contains(<<"/static/resumes/">> \o Quote(match_in.filename) \o <<")">>,
                     match_out.str)

\* the query's own file is the nearest match, one other resume follows, and
\* the provider fails
C22_Witness ==
    /\ match_in # NoCall
    /\ Len(match_in.matches) = 2
    /\ match_in.matches[1].meta.filename = match_in.filename
    /\ Len(Remaining) = 1
    /\ match_in.top_k = 1
    /\ match_in.response = DailyLimitReached
    /\ match_out = Str(ExpectedList(1))


(***************************************************************************)
(* Claims about extract_skills.                                            *)
(***************************************************************************)
\* the call of extract_skills has returned
SkillsReturned == skills_in # NoCall

\* the LLM call failed: the client returned a failure string or raised
SkillsLlmFailed == IsExc(skills_in.response) \/ IsSentinel(skills_in.response)

\* C23: whenever the LLM call fails (the client returns a failure string or
\* raises), the skills returned by extract_skills are those of the spaCy parse of
\* the Skills section or, if that yields nothing, of the keyword list, and no
\* returned skill holds text of the failure message
C23_SkillsFallBackWhenLlmFails ==
    (SkillsReturned /\ SkillsLlmFailed) =>
        /\ skills_out.skills = FallbackSkills(skills_in.text, skills_in.spacy)
        /\ \A skill \in skills_out.skills :
               ~(IsStr(skills_in.response) /\ Contains(skill, skills_in.response.str))

\* what does hold: after the client raised, or returned nothing to split, the
\* skills are those of the fallbacks
SkillsFallBackAfterException ==
    (SkillsReturned
     /\ (~IsStr(skills_in.response) \/ Strip(skills_in.response.str) = << >>)) =>
        skills_out.skills = FallbackSkills(skills_in.text, skills_in.spacy)


(***************************************************************************)
(* Claims about the legacy migration.                                      *)
(***************************************************************************)
\* migrate_legacy_data has just returned
MigrateReturned == last.op = "migrate"

\* the legacy pair holds n vectors and n entries (text, filename)
LegacyPairOf(n) ==
    /\ legacy_index_file # NoFile /\ legacy_corpus_file # NoFile
    /\ Len(legacy_index_file.vectors) = n
    /\ Len(legacy_corpus_file.entries) = n
    /\ \A i \in 1..n : Len(legacy_corpus_file.entries[i]) = 2

\* the legacy entries in the shape of the store
LegacyAsItems ==
    [i \in 1..Len(legacy_corpus_file.entries) |->
        <<legacy_corpus_file.entries[i][1],
          [filename |-> legacy_corpus_file.entries[i][2]]>>]

\* memory and files of the call's data type are as they were before the call
MigrateChangedNothing ==
    /\ View(last.h, last.T) = last.pre
    /\ index_file = last.files.index
    /\ corpus_file = last.files.corpus

\* C24: a successful migration of a legacy pair of n vectors and n entries
\* (text, filename) appends the n vectors to the index of the target data type
\* and the n entries (text, {filename}) to its corpus, in legacy order and
\* after what was there, and writes both to the files; with a legacy file
\* missing it returns false and changes nothing
C24_MigrationAppendsLegacyItems ==
    MigrateReturned =>
        /\ (last.ret.ok /\ \E n \in 1..MaxMigrated : LegacyPairOf(n)) =>
              /\ View(last.h, last.T).index = last.pre.index \o legacy_index_file.vectors
              /\ View(last.h, last.T).corpus = last.pre.corpus \o LegacyAsItems
              /\ Persisted(last.T) = View(last.h, last.T)
        /\ (legacy_index_file = NoFile \/ legacy_corpus_file = NoFile) =>
              ~last.ret.ok /\ MigrateChangedNothing

\* a migration succeeded a second time: the legacy items are there twice,
\* after an item that was there before
C24_Witness ==
    /\ MigrateReturned /\ last.ret.ok /\ last.again /\ LegacyPairOf(1)
    /\ View(last.h, last.T).corpus
           = << <<<<"a">>, [filename |-> "r1.pdf"]>> >> \o LegacyAsItems \o LegacyAsItems

\* a migration returned false because a legacy file is missing
MigrateWithoutLegacyFile ==
    MigrateReturned /\ (legacy_index_file = NoFile \/ legacy_corpus_file = NoFile)


\* C29: a migration that returns false leaves the index and the corpus of the
\* target data type, in memory and in the files, as they were before the call,
\* and of equal length
C29_FailedMigrationChangesNothing ==
    (MigrateReturned /\ ~last.ret.ok) =>
        /\ MigrateChangedNothing
        /\ Len(View(last.h, last.T).index) = Len(View(last.h, last.T).corpus)

\* what does hold: a migration that fails before line 128, on a missing legacy
\* file or on reading one, changes nothing
MigrationFailedEarlyChangesNothing ==
    (MigrateReturned
     /\ (legacy_index_file = NoFile \/ legacy_corpus_file = NoFile \/ last.meta.fault = "read"))
        => ~last.ret.ok /\ MigrateChangedNothing


(***************************************************************************)
(* Claims about the retry loop of call_llm_api.                            *)
(***************************************************************************)
\* the call is inside its retry loop
InRetryLoop == pc \in {"request", "sleep"}

\* the requests and the sleeps of the call so far are within the bounds: at
\* most max_retries requests, a sleep only between two attempts, the sleep
\* before attempt k + 1 of 2^k plus a jitter in [0, 1) (in tenths)
WithinRetryBounds ==
    /\ nreq <= call.args.max_retries
    /\ Len(sleeps) <= nreq
    /\ Len(sleeps) < call.args.max_retries \/ sleeps = << >>
    /\ pc = "returned" /\ nreq > 0 => Len(sleeps) = nreq - 1
    /\ \A k \in 1..Len(sleeps) : sleeps[k].base = 2 ^ (k - 1) /\ sleeps[k].jitter \in 0..9

\* C25: every call of call_llm_api returns, whatever the responses and the
\* transport failures, after at most max_retries requests and max_retries - 1
\* sleeps, the sleep before attempt k + 1 being 2^k plus a jitter in [0, 1), and
\* no sleep follows the last attempt
C25_CallTerminatesWithinBounds ==
    /\ [](WithinRetryBounds)
    /\ InRetryLoop ~> pc = "returned"

\* a call gave up after max_retries = 3 requests and two sleeps of 1 and 2
\* seconds plus jitter
C25_Witness ==
    /\ pc = "returned" /\ call.args.max_retries = 3 /\ nreq = 3
    /\ result.via \in {"transport", "ratelimit"}
    /\ Len(sleeps) = 2 /\ sleeps[1].base = 1 /\ sleeps[2].base = 2


(***************************************************************************)
(* Claims about the results of search.                                     *)
(***************************************************************************)
\* search on a non-empty corpus has just returned a list
SearchedNonEmpty ==
    SearchReturned /\ last.pre.corpus # << >> /\ "results" \in DOMAIN last.ret

\* the results are distinct indexed items: result k is the item at position
\* at[k], no position twice, with the similarity of that item's vector, among
\* the top_k nearest, nearest first, and accepted by the filter
DistinctNearestItems(at) ==
    LET results == last.ret.results
        index == last.pre.index
        corpus == last.pre.corpus
        far(i) == Distance(index[i], Encode(last.text))
    IN  /\ \A j, k \in 1..Len(results) : j # k => at[j] # at[k]
        /\ \A k \in 1..Len(results) :
               /\ at[k] <= Len(index)
               /\ results[k].text = corpus[at[k]][1]
               /\ results[k].meta = corpus[at[k]][2]
               /\ results[k].similarity = [d |-> 1 - far(at[k])]
               /\ Cardinality({i \in 1..Len(index) : far(i) < far(at[k])}) < last.meta.top_k
               /\ last.meta.filter_fn # NoFilter => results[k].meta = last.meta.filter_fn
        /\ \A k \in 1..(Len(results) - 1) : far(at[k]) <= far(at[k + 1])

\* C26: for every search on a non-empty corpus each result is a distinct
\* indexed item of the data type, from the top_k nearest and nearest first,
\* and satisfies the filter when one is given; there are at most as many
\* results as indexed items, also when top_k is larger
C26_ResultsAreDistinctNearestItems ==
    SearchedNonEmpty =>
        /\ Len(last.ret.results) <= Len(last.pre.corpus)
        /\ \E at \in [1..Len(last.ret.results) -> 1..Len(last.pre.corpus)] :
               DistinctNearestItems(at)

\* what does hold: the same for a top_k that does not exceed the number of
\* indexed vectors
ResultsDistinctWithinIndexSize ==
    (SearchedNonEmpty /\ last.meta.top_k <= Len(last.pre.index)) =>
        /\ Len(last.ret.results) <= Len(last.pre.corpus)
        /\ \E at \in [1..Len(last.ret.results) -> 1..Len(last.pre.corpus)] :
               DistinctNearestItems(at)


(***************************************************************************)
(* Claims about what the response cache holds.                             *)
(***************************************************************************)
\* the call was answered from the cache, without a request
ReturnedFromCache == pc = "returned" /\ result.via = "cached"

\* C28: no failure is ever stored in llm_cache, so no call is answered from the
\* cache with a failure string
C28_NoFailureInCache ==
    /\ \A key \in DOMAIN llm_cache : ~IsSentinel(llm_cache[key])
    /\ ReturnedFromCache => ~IsSentinel(result.value)

\* what does hold: the failures stored are those of the 200 branch alone; the
\* failures of the other statuses, of the transport and of the retry limit are
\* never stored
OnlyFailuresOf200Cached ==
    \A key \in DOMAIN llm_cache :
        IsSentinel(llm_cache[key]) => llm_cache[key] \in {UnexpectedStructure, FailedToParse}


(***************************************************************************)
(* Claims about fetch_recommended_courses.                                 *)
(***************************************************************************)
RecReturned == rec_in # NoCall

\* the intelligent path failed: it raised or returned a failure string
IntelligentFailed == IsExc(rec_in.intelligent) \/ IsSentinel(rec_in.intelligent)

\* the intelligent path yielded no courses: an empty output or one of its
\* messages for no courses
IntelligentNoCourses ==
    /\ IsStr(rec_in.intelligent)
    /\ \/ Strip(rec_in.intelligent.str) = << >>
       \/ rec_in.intelligent \in {NoRelevantCourses, NoCoursesFound}

\* C27: whenever the intelligent path fails or yields no courses the basic
\* Coursera/YouTube fetch runs before fetch_recommended_courses returns; the
\* result is never the failure string of the intelligent path, and the
\* function never raises
C27_BasicFetchAfterIntelligentFailure ==
    RecReturned =>
        /\ (IntelligentFailed \/ IntelligentNoCourses) => rec_out.fallback
        /\ IsSentinel(rec_in.intelligent) => rec_out.value # rec_in.intelligent
        /\ ~IsExc(rec_out.value)

\* what does hold: the basic fetch runs after an exception, after an empty
\* output and after the message of line 284, and the function never raises
BasicFetchAfterExceptionOrEmpty ==
    RecReturned =>
        /\ (\/ IsExc(rec_in.intelligent)
            \/ Strip(rec_in.intelligent.str) = << >>
            \/ rec_in.intelligent = NoRelevantCourses) => rec_out.fallback
        /\ ~IsExc(rec_out.value)


(***************************************************************************)
(* Claims about several handlers over the same files.                      *)
(***************************************************************************)
\* a successful add has just returned, and the call before it was a successful
\* add to the same data type: last.added is the item that call acknowledged
AddAfterAcknowledgedAdd ==
    SuccessfulAddReturned /\ last.added # NoCall

\* the item is in the persisted corpus of T
InPersistedCorpus(item, T) ==
    \E i \in 1..Len(Persisted(T).corpus) : Persisted(T).corpus[i] = item

\* C30: an item whose add has returned success stays in the persisted corpus
\* of its data type until clear, whichever handlers the later calls go
\* through: a later add does not remove it
C30_AcknowledgedItemStaysPersisted ==
    AddAfterAcknowledgedAdd => InPersistedCorpus(last.added.item, last.T)

\* what does hold: the next add through the same handler keeps the item
SameHandlerKeepsAcknowledgedItem ==
    (AddAfterAcknowledgedAdd /\ last.again) => InPersistedCorpus(last.added.item, last.T)

====
